---- MODULE Spec2Model ----
(***************************************************************************)
(* Terrain synthesis of 2.5D Lands: the seeded gradient-noise engine       *)
(* (Noise.cpp), the four-pass world generator (World.cpp) and the biome    *)
(* classifier.                                                             *)
(*                                                                         *)
(* Numbers.  A C++ float v is represented by the integer floor(v * SCALE), *)
(* SCALE = 10^6 (fixed point, six decimals).  Sums and comparisons are     *)
(* exact; products and quotients are floored to the sixth decimal, where   *)
(* the float code rounds to 24 significant bits.  Every threshold of the   *)
(* code (0.3, 0.4, 0.6, 0.7, 0.82, 20.0 ...) is represented exactly.       *)
(***************************************************************************)
EXTENDS Integers, Sequences, FiniteSets, TLC

VARIABLES
    p, lastSeed,            \* PerlinNoise: the static table and the seed it was built for
    call, result,           \* the last PerlinNoise call: its arguments, its return value
    ref,                    \* an earlier PerlinNoise call, kept for comparison
    lookups,                \* the last PerlinNoise call: its cell and the indices it read p at
    gradCall,               \* the last direct Grad call: arguments and return value
    layered,                \* the last direct LayeredNoise call: arguments, octave log, result
    island,                 \* the last island factor computed on its own: cell, sizes, values
    playerCall,             \* the HandlePlayerMovement calls followed on their own: one made, the calls in a row without a jump
    width, height,          \* WORLD_WIDTH, WORLD_HEIGHT of the build
    pc, cx, cy,             \* GenerateWorld: the running loop and its indices x, y
    terrainData,            \* GenerateWorld: the TerrainData grid
    smoothedElevation,      \* GenerateWorld: the buffer of the smoothing pass
    world,                  \* GenerateWorld: the Tile grid it returns
    outcome,                \* how the last GenerateWorld call ended
    runs,                   \* number of GenerateWorld calls that have returned
    rawData,                \* history: terrainData at the end of the raw-field pass
    carvedData,             \* history: terrainData at the end of the river/lake pass
    firstGrid,              \* history: x, y, elevation, walkable of the first grid returned
    noiseCalls,             \* history: PerlinNoise calls made by the running GenerateWorld
    elevation, moisture, biome,     \* DetermineBiome: arguments and return value
    player, camera,         \* main: the Player and the Camera
    running, debugMode,     \* main: the flags of the game loop
    frame,                  \* the tiles drawn on the renderer since it was last cleared
    frames, polled          \* game loop: iterations finished (counted up to MaxFrames), events polled in this one

noiseVars == <<p, lastSeed>>
callVars == <<call, result, ref, lookups>>
unitVars == <<gradCall, layered, island, playerCall>>
worldVars == <<width, height, pc, cx, cy, terrainData, smoothedElevation, world,
               outcome, runs, rawData, carvedData, firstGrid, noiseCalls>>
biomeVars == <<elevation, moisture, biome>>
gameVars == <<player, camera, running, debugMode, frame, frames, polled>>
vars == <<noiseVars, callVars, unitVars, worldVars, biomeVars, gameVars>>

---------------------------------------------------------------------------
(* Fixed-point arithmetic                                                  *)

SCALE == 1000 * 1000

\* the float literal n/d (0.6f is Dec(6, 10))
Dec(n, d) == (n * SCALE) \div d

\* a * b on floats: floor(a*b / SCALE), computed in two halves so that no
\* intermediate product leaves the 32-bit range
FMul(a, b) ==
    LET a1 == a \div 1000
        a0 == a % 1000
        b1 == b \div 1000
        b0 == b % 1000
        mid == a1 * b0 + a0 * b1
    IN  a1 * b1 + (mid \div 1000) + (((mid % 1000) * 1000 + a0 * b0) \div SCALE)

\* a / b on floats, b > 0: floor(a * SCALE / b) by long division in base 100
FDiv(a, b) ==
    LET q1 == (a * 100) \div b
        r1 == (a * 100) % b
        q2 == (r1 * 100) \div b
        r2 == (r1 * 100) % b
        q3 == (r2 * 100) \div b
    IN  q1 * 10000 + q2 * 100 + q3

\* static_cast<int>(v): truncation toward zero
TruncToInt(v) == IF v >= 0 THEN v \div SCALE ELSE -((-v) \div SCALE)

Min(a, b) == IF a < b THEN a ELSE b
Max(a, b) == IF a > b THEN a ELSE b

---------------------------------------------------------------------------
(* GameConstants.h                                                         *)

WATER_LEVEL    == 20 * SCALE
BEACH_LEVEL    == 23 * SCALE
PLAINS_LEVEL   == 35 * SCALE
HILLS_LEVEL    == 50 * SCALE
MOUNTAIN_LEVEL == 70 * SCALE

BiomeType == {"DEEP_WATER", "SHALLOW_WATER", "BEACH", "PLAINS", "FOREST",
              "HILLS", "MOUNTAINS", "SNOW_CAPS"}

---------------------------------------------------------------------------
(* Noise.cpp: helper functions                                             *)

\* a & b for a non-negative a and a mask b, bit by bit
RECURSIVE BitAndNat(_, _)
BitAndNat(a, b) ==
    IF a = 0 \/ b = 0 THEN 0
    ELSE (a % 2) * (b % 2) + 2 * BitAndNat(a \div 2, b \div 2)

\* a & b on two's-complement ints, b >= 0: a negative a is ~(-a-1)
BitAnd(a, b) == IF a >= 0 THEN BitAndNat(a, b) ELSE b - BitAndNat(-a - 1, b)

\* std::floor(v) as an int, and v - std::floor(v)
Floor(v) == v \div SCALE
Frac(v) == v - Floor(v) * SCALE

Fade(t) == FMul(FMul(FMul(t, t), t), FMul(t, 6 * t - 15 * SCALE) + 10 * SCALE)

\* mutant: v is x for the residues 12 and 13
GradTerms_V13(hash, x, y) ==
    LET h == BitAnd(hash, 15)
        u == IF h < 8 THEN x ELSE y
        v == IF h < 4 THEN y ELSE IF h = 12 \/ h = 13 THEN x ELSE 0
    IN  [u |-> IF BitAnd(h, 1) = 0 THEN u ELSE -u,
         v |-> IF BitAnd(h, 2) = 0 THEN v ELSE -v]

\* the two terms Grad adds: u and v with their signs
GradTerms(hash, x, y) ==
    LET h == BitAnd(hash, 15)
        u == IF h < 8 THEN x ELSE y
        v == IF h < 4 THEN y ELSE IF h = 12 \/ h = 14 THEN x ELSE 0
    IN  [u |-> IF BitAnd(h, 1) = 0 THEN u ELSE -u,
         v |-> IF BitAnd(h, 2) = 0 THEN v ELSE -v]

Grad(hash, x, y) == GradTerms(hash, x, y).u + GradTerms(hash, x, y).v

\* mutant: the interpolation starts from b
Lerp_FromB(a, b, t) == b + FMul(t, a - b)

Lerp(a, b, t) == a + FMul(t, b - a)

---------------------------------------------------------------------------
(* Noise.cpp: PerlinNoise.  C++ index i of a table is position i + 1 here. *)

permutation == <<
    151, 160, 137, 91, 90, 15, 131, 13, 201, 95, 96, 53, 194, 233, 7, 225,
    140, 36, 103, 30, 69, 142, 8, 99, 37, 240, 21, 10, 23, 190, 6, 148,
    247, 120, 234, 75, 0, 26, 197, 62, 94, 252, 219, 203, 117, 35, 11, 32,
    57, 177, 33, 88, 237, 149, 56, 87, 174, 20, 125, 136, 171, 168, 68, 175,
    74, 165, 71, 134, 139, 48, 27, 166, 77, 146, 158, 231, 83, 111, 229, 122,
    60, 211, 133, 230, 220, 105, 92, 41, 55, 46, 245, 40, 244, 102, 143, 54,
    65, 25, 63, 161, 1, 216, 80, 73, 209, 76, 132, 187, 208, 89, 18, 169,
    200, 196, 135, 130, 116, 188, 159, 86, 164, 100, 109, 198, 173, 186, 3, 64,
    52, 217, 226, 250, 124, 123, 5, 202, 38, 147, 118, 126, 255, 82, 85, 212,
    207, 206, 59, 227, 47, 16, 58, 17, 182, 189, 28, 42, 223, 183, 170, 213,
    119, 248, 152, 2, 44, 154, 163, 70, 221, 153, 101, 155, 167, 43, 172, 9,
    129, 22, 39, 253, 19, 98, 108, 110, 79, 113, 224, 232, 178, 185, 112, 104,
    218, 246, 97, 228, 251, 34, 242, 193, 238, 210, 144, 12, 191, 179, 162, 241,
    81, 51, 145, 235, 249, 14, 239, 107, 49, 192, 214, 31, 181, 199, 106, 157,
    184, 84, 204, 176, 115, 121, 50, 45, 127, 4, 150, 254, 138, 236, 205, 93,
    222, 114, 67, 29, 24, 72, 243, 141, 128, 195, 78, 66, 215, 61, 156, 180 >>

Order_m1 == <<
    221, 81, 121, 97, 194, 225, 158, 206, 15, 52, 12, 113, 199, 145, 24, 160,
    2, 244, 44, 98, 80, 31, 157, 3, 179, 47, 143, 131, 4, 156, 187, 30,
    99, 236, 115, 42, 195, 26, 19, 176, 75, 7, 177, 87, 211, 163, 153, 38,
    41, 230, 102, 116, 192, 152, 48, 63, 234, 167, 155, 124, 100, 78, 219, 217,
    171, 39, 139, 180, 88, 134, 79, 245, 61, 130, 161, 149, 118, 103, 141, 58,
    164, 95, 56, 191, 11, 165, 109, 9, 133, 235, 90, 224, 93, 82, 150, 148,
    198, 96, 8, 228, 66, 142, 127, 151, 240, 76, 247, 20, 77, 27, 248, 119,
    57, 22, 108, 53, 13, 251, 232, 32, 86, 154, 105, 67, 181, 35, 126, 91,
    207, 28, 129, 25, 54, 55, 216, 196, 33, 201, 112, 254, 255, 132, 185, 17,
    104, 203, 209, 59, 114, 188, 94, 137, 144, 74, 1, 249, 106, 110, 233, 170,
    72, 252, 111, 239, 36, 215, 208, 64, 123, 85, 222, 0, 122, 135, 227, 174,
    241, 220, 250, 50, 107, 46, 10, 218, 173, 128, 162, 62, 183, 168, 175, 226,
    229, 14, 73, 147, 238, 204, 205, 138, 70, 184, 16, 43, 68, 231, 29, 253,
    243, 242, 237, 49, 197, 117, 202, 89, 210, 146, 40, 186, 169, 136, 65, 125,
    60, 140, 23, 120, 190, 84, 178, 6, 172, 5, 69, 223, 212, 18, 51, 213,
    246, 37, 214, 101, 182, 159, 92, 45, 200, 193, 71, 21, 189, 83, 166, 34 >>

Order_0 == <<
    229, 121, 136, 177, 239, 105, 89, 202, 26, 34, 245, 96, 141, 20, 36, 104,
    170, 219, 227, 61, 115, 212, 122, 111, 188, 83, 47, 244, 130, 28, 13, 182,
    146, 243, 252, 220, 45, 16, 240, 82, 62, 88, 10, 119, 2, 216, 97, 95,
    131, 52, 183, 30, 35, 107, 151, 93, 118, 236, 228, 102, 192, 207, 43, 17,
    198, 50, 186, 84, 78, 189, 181, 217, 173, 191, 24, 241, 31, 77, 71, 250,
    133, 14, 242, 39, 110, 80, 159, 140, 144, 204, 22, 148, 9, 126, 51, 230,
    124, 6, 125, 162, 147, 100, 108, 195, 8, 60, 249, 156, 232, 129, 145, 234,
    79, 123, 200, 65, 178, 168, 194, 209, 40, 180, 255, 201, 18, 103, 175, 29,
    197, 68, 235, 206, 226, 41, 38, 99, 199, 85, 149, 218, 214, 114, 161, 190,
    221, 113, 224, 94, 0, 238, 166, 59, 233, 117, 37, 251, 63, 213, 98, 32,
    106, 81, 42, 248, 247, 134, 246, 33, 171, 174, 193, 185, 74, 164, 163, 55,
    72, 53, 167, 92, 64, 54, 69, 187, 15, 11, 76, 23, 205, 86, 128, 7,
    153, 19, 176, 1, 158, 112, 254, 57, 21, 70, 210, 49, 4, 66, 208, 58,
    116, 25, 157, 196, 142, 223, 225, 132, 138, 211, 154, 5, 12, 237, 152, 139,
    120, 155, 127, 165, 150, 27, 90, 143, 87, 169, 44, 3, 160, 222, 67, 56,
    184, 215, 75, 253, 48, 172, 231, 179, 203, 109, 137, 73, 135, 91, 101, 46 >>

Order_1 == <<
    97, 56, 152, 200, 108, 154, 114, 41, 104, 22, 72, 220, 181, 178, 14, 76,
    202, 186, 176, 112, 142, 147, 211, 194, 240, 196, 134, 88, 109, 53, 110, 59,
    57, 228, 111, 159, 139, 63, 174, 225, 138, 103, 32, 67, 223, 12, 155, 168,
    209, 171, 19, 239, 124, 149, 5, 238, 212, 62, 215, 82, 25, 234, 150, 99,
    214, 17, 44, 169, 45, 141, 132, 3, 233, 129, 165, 38, 170, 235, 37, 145,
    125, 180, 227, 55, 58, 182, 68, 199, 106, 13, 100, 135, 80, 189, 173, 119,
    1, 49, 105, 158, 65, 244, 116, 71, 252, 96, 216, 162, 137, 245, 70, 27,
    163, 95, 6, 146, 98, 156, 29, 10, 213, 197, 157, 250, 148, 89, 222, 218,
    11, 242, 9, 31, 81, 48, 35, 60, 172, 254, 229, 226, 21, 86, 167, 52,
    0, 118, 217, 113, 131, 130, 51, 140, 23, 243, 4, 143, 123, 247, 144, 160,
    241, 75, 84, 77, 207, 236, 94, 43, 184, 30, 15, 166, 248, 136, 127, 133,
    221, 28, 42, 16, 201, 54, 126, 83, 18, 187, 40, 2, 61, 206, 115, 251,
    210, 191, 179, 47, 85, 26, 203, 253, 237, 74, 185, 193, 101, 161, 8, 128,
    151, 177, 188, 50, 20, 7, 92, 219, 64, 39, 255, 195, 230, 73, 231, 208,
    87, 79, 249, 107, 205, 91, 120, 102, 24, 122, 246, 36, 66, 33, 192, 34,
    46, 183, 224, 175, 93, 121, 78, 153, 190, 204, 164, 90, 198, 117, 232, 69 >>

Order_2 == <<
    5, 19, 221, 87, 155, 84, 237, 69, 163, 135, 90, 145, 96, 74, 183, 228,
    204, 173, 150, 118, 75, 111, 51, 154, 152, 187, 6, 125, 103, 57, 137, 175,
    97, 133, 68, 217, 166, 45, 88, 12, 116, 0, 252, 7, 9, 231, 178, 167,
    218, 213, 40, 31, 239, 194, 140, 224, 179, 49, 102, 172, 100, 72, 34, 149,
    132, 37, 186, 22, 191, 136, 181, 32, 193, 121, 23, 81, 208, 201, 141, 129,
    184, 21, 164, 165, 24, 130, 229, 219, 216, 190, 195, 93, 138, 131, 28, 143,
    147, 226, 79, 39, 176, 113, 35, 192, 44, 56, 104, 134, 53, 245, 214, 223,
    82, 59, 71, 144, 119, 10, 249, 80, 250, 52, 115, 112, 95, 101, 73, 247,
    153, 107, 110, 99, 233, 211, 20, 158, 16, 33, 225, 106, 83, 48, 30, 86,
    25, 243, 189, 244, 185, 26, 168, 76, 123, 38, 139, 160, 60, 17, 198, 128,
    47, 85, 46, 215, 159, 202, 222, 161, 199, 170, 242, 146, 126, 210, 246, 197,
    15, 14, 13, 120, 105, 212, 50, 2, 67, 251, 127, 196, 108, 188, 248, 177,
    240, 109, 4, 77, 206, 1, 89, 63, 117, 180, 162, 174, 62, 230, 253, 91,
    241, 41, 94, 65, 29, 3, 156, 92, 27, 42, 227, 142, 151, 234, 66, 18,
    203, 255, 54, 98, 55, 148, 236, 232, 122, 8, 157, 58, 64, 220, 61, 207,
    70, 78, 205, 171, 254, 200, 169, 114, 36, 209, 238, 182, 235, 124, 11, 43 >>

Order_3 == <<
    141, 229, 118, 154, 139, 233, 125, 30, 18, 243, 50, 121, 9, 206, 198, 16,
    36, 149, 212, 54, 44, 109, 80, 143, 108, 90, 55, 106, 19, 58, 74, 76,
    104, 159, 227, 174, 65, 2, 68, 88, 127, 207, 171, 112, 15, 168, 31, 13,
    20, 183, 172, 225, 157, 192, 119, 152, 8, 62, 205, 142, 129, 27, 165, 25,
    133, 160, 51, 46, 123, 70, 34, 115, 194, 56, 7, 238, 57, 164, 100, 237,
    222, 203, 114, 173, 248, 169, 66, 59, 69, 196, 240, 162, 52, 10, 144, 113,
    47, 218, 77, 110, 85, 45, 22, 175, 216, 230, 38, 208, 184, 116, 197, 92,
    132, 151, 101, 146, 178, 226, 120, 163, 246, 182, 105, 73, 213, 42, 193, 49,
    131, 107, 5, 103, 94, 40, 79, 250, 86, 181, 39, 11, 75, 99, 239, 251,
    252, 137, 41, 26, 214, 231, 14, 89, 93, 32, 202, 249, 83, 96, 167, 224,
    117, 232, 186, 244, 0, 48, 102, 187, 24, 255, 245, 228, 158, 148, 156, 67,
    97, 210, 128, 223, 82, 191, 43, 153, 145, 124, 64, 195, 134, 234, 87, 17,
    199, 53, 161, 23, 72, 215, 111, 188, 126, 84, 190, 176, 217, 242, 140, 204,
    150, 155, 254, 35, 247, 166, 4, 189, 170, 200, 211, 33, 3, 71, 220, 179,
    1, 136, 135, 235, 28, 177, 130, 122, 253, 6, 29, 63, 12, 81, 98, 138,
    209, 221, 201, 241, 236, 147, 61, 95, 185, 180, 60, 219, 78, 21, 91, 37 >>

Order_4 == <<
    149, 82, 67, 157, 217, 145, 241, 100, 105, 198, 25, 119, 193, 11, 132, 190,
    218, 4, 108, 57, 163, 211, 197, 170, 131, 6, 146, 215, 143, 3, 172, 138,
    8, 109, 130, 80, 60, 166, 129, 7, 220, 167, 94, 98, 245, 34, 23, 188,
    206, 194, 16, 77, 209, 93, 21, 10, 155, 85, 101, 158, 5, 152, 195, 160,
    78, 24, 176, 186, 46, 99, 50, 221, 230, 76, 204, 51, 144, 62, 97, 205,
    92, 68, 248, 147, 177, 182, 242, 41, 107, 14, 180, 91, 117, 137, 250, 148,
    110, 114, 236, 244, 174, 233, 164, 162, 56, 44, 247, 192, 216, 159, 183, 151,
    135, 88, 42, 249, 69, 169, 73, 33, 104, 251, 89, 196, 171, 38, 121, 219,
    15, 168, 13, 125, 49, 208, 20, 27, 203, 26, 40, 55, 36, 84, 18, 225,
    252, 161, 243, 74, 65, 115, 116, 139, 222, 71, 22, 43, 59, 165, 53, 54,
    120, 123, 29, 31, 156, 86, 238, 173, 95, 191, 179, 210, 142, 66, 181, 141,
    153, 2, 35, 200, 9, 19, 90, 207, 237, 102, 128, 96, 202, 58, 253, 124,
    122, 232, 12, 178, 79, 75, 223, 72, 189, 201, 150, 30, 229, 234, 239, 118,
    52, 133, 175, 136, 87, 231, 226, 254, 106, 134, 240, 184, 212, 45, 39, 246,
    227, 0, 61, 83, 47, 28, 37, 154, 111, 1, 255, 187, 228, 63, 213, 224,
    235, 185, 199, 81, 113, 32, 127, 126, 112, 64, 48, 70, 140, 17, 214, 103 >>

Order_5 == <<
    176, 86, 120, 136, 10, 117, 208, 109, 90, 193, 114, 187, 186, 222, 100, 30,
    183, 209, 212, 137, 75, 53, 116, 225, 216, 206, 199, 171, 27, 241, 89, 96,
    59, 207, 170, 37, 151, 14, 237, 202, 239, 160, 54, 25, 76, 91, 211, 231,
    250, 38, 95, 99, 230, 48, 107, 220, 20, 113, 122, 26, 82, 65, 226, 141,
    22, 233, 214, 167, 165, 177, 243, 125, 4, 163, 246, 188, 189, 56, 138, 50,
    8, 140, 98, 147, 205, 24, 126, 71, 2, 123, 238, 102, 213, 242, 46, 103,
    49, 152, 9, 204, 19, 146, 178, 218, 6, 108, 185, 196, 112, 66, 173, 166,
    13, 101, 227, 161, 221, 195, 118, 110, 149, 198, 36, 150, 88, 127, 29, 5,
    52, 197, 83, 31, 164, 128, 236, 47, 153, 51, 94, 203, 80, 131, 16, 154,
    228, 235, 32, 247, 61, 55, 69, 129, 68, 240, 200, 229, 33, 192, 144, 172,
    105, 175, 157, 191, 77, 39, 34, 1, 134, 21, 145, 42, 111, 130, 45, 35,
    158, 181, 106, 179, 0, 184, 72, 60, 28, 249, 62, 254, 97, 148, 232, 67,
    219, 57, 255, 223, 93, 210, 244, 64, 156, 44, 139, 74, 85, 180, 124, 190,
    58, 104, 7, 23, 169, 87, 194, 182, 135, 224, 132, 17, 63, 234, 41, 162,
    43, 245, 119, 253, 11, 3, 252, 115, 201, 12, 84, 159, 70, 78, 133, 217,
    40, 18, 143, 79, 174, 92, 251, 168, 142, 215, 81, 155, 248, 121, 15, 73 >>

Order_6 == <<
    12, 37, 33, 9, 80, 45, 115, 85, 137, 151, 21, 194, 143, 139, 31, 188,
    34, 40, 46, 65, 141, 0, 2, 131, 110, 116, 6, 20, 173, 157, 161, 210,
    128, 103, 125, 89, 78, 16, 152, 208, 41, 3, 224, 98, 59, 252, 18, 154,
    70, 17, 28, 207, 185, 64, 100, 222, 122, 62, 204, 102, 74, 84, 245, 174,
    113, 155, 55, 180, 168, 126, 23, 171, 216, 50, 60, 228, 192, 97, 166, 176,
    213, 77, 159, 255, 241, 39, 243, 231, 73, 226, 42, 57, 27, 219, 147, 15,
    121, 249, 118, 202, 212, 140, 22, 130, 108, 51, 75, 169, 24, 58, 206, 189,
    242, 101, 142, 25, 114, 112, 158, 181, 160, 195, 254, 87, 225, 30, 129, 63,
    90, 230, 234, 238, 69, 182, 218, 144, 19, 107, 95, 104, 4, 43, 217, 86,
    201, 236, 235, 38, 26, 14, 124, 196, 133, 200, 67, 49, 191, 175, 10, 136,
    71, 247, 220, 117, 135, 246, 165, 35, 96, 54, 198, 193, 214, 68, 162, 119,
    179, 36, 56, 47, 11, 237, 183, 145, 177, 148, 163, 93, 79, 229, 253, 76,
    72, 172, 105, 170, 232, 92, 197, 99, 150, 1, 251, 127, 94, 13, 8, 32,
    248, 190, 66, 211, 215, 240, 88, 138, 167, 61, 29, 91, 156, 250, 82, 209,
    109, 153, 132, 7, 123, 227, 239, 111, 106, 178, 81, 5, 203, 164, 184, 244,
    199, 48, 187, 120, 223, 149, 233, 52, 205, 83, 44, 134, 186, 146, 53, 221 >>

Order_7 == <<
    220, 76, 207, 52, 129, 87, 217, 45, 32, 27, 10, 135, 173, 248, 3, 239,
    56, 169, 155, 74, 224, 82, 154, 103, 120, 15, 53, 150, 26, 33, 175, 68,
    163, 49, 192, 253, 44, 54, 250, 110, 233, 106, 36, 156, 159, 123, 177, 134,
    170, 28, 136, 166, 81, 157, 116, 214, 16, 249, 164, 198, 139, 203, 5, 142,
    241, 85, 194, 72, 113, 64, 221, 77, 160, 24, 86, 185, 184, 245, 252, 187,
    131, 213, 99, 69, 200, 117, 9, 205, 218, 162, 216, 71, 98, 34, 153, 121,
    50, 48, 29, 226, 83, 105, 202, 229, 42, 0, 17, 19, 75, 191, 58, 212,
    94, 2, 119, 40, 183, 149, 242, 21, 147, 20, 232, 101, 130, 62, 91, 79,
    80, 206, 180, 211, 208, 39, 255, 167, 38, 107, 210, 1, 146, 88, 132, 78,
    23, 133, 196, 161, 251, 70, 115, 190, 109, 199, 215, 97, 125, 247, 100, 89,
    234, 174, 228, 4, 236, 254, 92, 244, 144, 151, 128, 225, 30, 67, 227, 61,
    238, 148, 126, 223, 230, 201, 111, 104, 186, 195, 182, 57, 122, 171, 137, 18,
    31, 73, 145, 112, 95, 93, 189, 8, 37, 41, 179, 124, 152, 204, 55, 51,
    43, 235, 35, 84, 168, 176, 60, 114, 46, 22, 96, 13, 197, 11, 102, 63,
    141, 188, 243, 127, 219, 66, 240, 6, 209, 165, 193, 246, 7, 143, 108, 90,
    25, 172, 140, 14, 118, 178, 237, 47, 158, 65, 138, 222, 12, 181, 59, 231 >>

Order_8 == <<
    209, 111, 75, 181, 113, 174, 96, 192, 167, 161, 141, 160, 30, 69, 118, 135,
    146, 94, 179, 27, 142, 78, 220, 166, 82, 117, 37, 90, 6, 139, 34, 22,
    212, 249, 253, 194, 38, 200, 32, 138, 148, 229, 12, 124, 4, 245, 85, 41,
    19, 190, 195, 206, 65, 115, 102, 20, 9, 119, 219, 2, 3, 61, 144, 49,
    57, 48, 77, 68, 239, 151, 255, 103, 44, 51, 217, 87, 169, 114, 7, 183,
    176, 73, 72, 84, 247, 137, 153, 196, 236, 134, 93, 66, 26, 199, 131, 89,
    202, 108, 222, 165, 156, 132, 29, 235, 17, 162, 186, 63, 187, 177, 242, 58,
    254, 123, 46, 227, 216, 234, 107, 252, 16, 125, 163, 74, 226, 99, 95, 248,
    204, 64, 109, 36, 106, 67, 175, 59, 31, 155, 143, 241, 54, 24, 83, 240,
    230, 101, 76, 23, 122, 52, 62, 43, 246, 97, 5, 47, 150, 91, 218, 157,
    88, 154, 244, 152, 224, 185, 250, 79, 14, 158, 60, 39, 191, 81, 231, 168,
    238, 210, 215, 129, 112, 214, 184, 71, 104, 233, 33, 197, 35, 40, 128, 80,
    8, 237, 105, 45, 0, 147, 130, 173, 149, 11, 42, 198, 136, 21, 25, 171,
    140, 55, 127, 1, 159, 18, 120, 228, 13, 203, 15, 232, 100, 182, 193, 10,
    86, 116, 98, 225, 56, 221, 70, 172, 121, 164, 170, 243, 28, 211, 207, 50,
    180, 92, 188, 145, 178, 208, 53, 133, 223, 251, 201, 213, 110, 126, 205, 189 >>

\* std::shuffle(first, last, std::mt19937(seed)) moves the element at
\* position ShuffleOrder(seed)[i] to position i (libstdc++, 256 elements);
\* the orders of the seeds -1 .. 8 are tabulated above
ShuffleOrder(seed) ==
    CASE seed = -1 -> Order_m1
      [] seed = 0 -> Order_0
      [] seed = 1 -> Order_1
      [] seed = 2 -> Order_2
      [] seed = 3 -> Order_3
      [] seed = 4 -> Order_4
      [] seed = 5 -> Order_5
      [] seed = 6 -> Order_6
      [] seed = 7 -> Order_7
      [] seed = 8 -> Order_8

Shuffle(table, seed) == [i \in 1..256 |-> table[ShuffleOrder(seed)[i] + 1]]

\* base_perm after the shuffle, written twice into the 512 entries of p
Duplicate(base_perm) == [i \in 1..512 |-> base_perm[((i - 1) % 256) + 1]]

\* the table built for each tabulated seed (computed once)
SeededTables == [seed \in (-1) .. 8 |-> Duplicate(Shuffle(permutation, seed))]
SeededTable(seed) == SeededTables[seed]

\* static std::vector<int> p(512); static int lastSeed = -1;
InitialTable == [i \in 1..512 |-> 0]
InitialSeed == -1

\* mutant: after the first build, the table in the cache is shuffled in
\* place instead of a fresh copy of the base permutation
Reseed_InPlace(cache, seed) ==
    IF seed # cache.lastSeed
    THEN [p |-> Duplicate(Shuffle(IF cache.lastSeed = InitialSeed
                                  THEN permutation ELSE cache.p, seed)),
          lastSeed |-> seed]
    ELSE cache

\* the static cache after the test "if (seed != lastSeed)" of a call
Reseed(cache, seed) ==
    IF seed # cache.lastSeed
    THEN [p |-> SeededTable(seed), lastSeed |-> seed]
    ELSE cache

\* mutant: the lattice index is left unmasked
CellIndex_NoMask(v) == Floor(v)

\* mutant: the lattice index is the remainder of the C++ operator %
CellIndex_Rem(v) ==
    IF Floor(v) >= 0 THEN Floor(v) % 256 ELSE -((-Floor(v)) % 256)

\* static_cast<int>(std::floor(v)) & 255
CellIndex(v) == BitAnd(Floor(v), 255)

\* the index i lies inside the vector tab
InTable(tab, i) == i >= 0 /\ i < Len(tab)

\* the indices PerlinNoise reads tab at for the lattice cell (X, Y): X, X+1,
\* A, A+1, B, B+1, AA, AB, BA, BB, up to the first group with an index
\* outside the vector
PerlinReads(tab, X, Y) ==
    IF ~(InTable(tab, X) /\ InTable(tab, X + 1)) THEN <<X, X + 1>>
    ELSE LET A == tab[X + 1] + Y
             B == tab[X + 2] + Y
         IN  IF ~(/\ InTable(tab, A) /\ InTable(tab, A + 1)
                  /\ InTable(tab, B) /\ InTable(tab, B + 1))
             THEN <<X, X + 1, A, A + 1, B, B + 1>>
             ELSE <<X, X + 1, A, A + 1, B, B + 1,
                    tab[A + 1], tab[A + 2], tab[B + 1], tab[B + 2]>>

PerlinLookups(tab, x, y) ==
    [X |-> CellIndex(x), Y |-> CellIndex(y),
     reads |-> PerlinReads(tab, CellIndex(x), CellIndex(y))]

\* the value PerlinNoise returns when it reads the table tab
PerlinValue(tab, x, y) ==
    LET X == CellIndex(x)
        Y == CellIndex(y)
        xf == Frac(x)
        yf == Frac(y)
        u == Fade(xf)
        v == Fade(yf)
        A == tab[X + 1] + Y
        AA == tab[A + 1]
        AB == tab[A + 2]
        B == tab[X + 2] + Y
        BA == tab[B + 1]
        BB == tab[B + 2]
    IN  Lerp(Lerp(Grad(tab[AA + 1], xf, yf),
                  Grad(tab[BA + 1], xf - SCALE, yf), u),
             Lerp(Grad(tab[AB + 1], xf, yf - SCALE),
                  Grad(tab[BB + 1], xf - SCALE, yf - SCALE), u),
             v)

\* PerlinNoise(x, y, seed) called with the static cache in state cache:
\* the returned value and the cache it leaves behind
PerlinNoise(x, y, seed, cache) ==
    LET c == Reseed(cache, seed)
    IN  [value |-> PerlinValue(c.p, x, y), cache |-> c]

\* mutant: every octave samples with the base seed
LayeredOctave_SameSeed(st, x, y, persistence, seed) ==
    LET n == PerlinNoise(FMul(x, st.frequency), FMul(y, st.frequency),
                         seed, st.cache)
    IN  [i |-> st.i + 1,
         total |-> st.total + FMul(n.value, st.amplitude),
         maxValue |-> st.maxValue + st.amplitude,
         amplitude |-> FMul(st.amplitude, persistence),
         frequency |-> 2 * st.frequency,
         calls |-> Append(st.calls,
                     [x |-> FMul(x, st.frequency), y |-> FMul(y, st.frequency),
                      seed |-> seed, amplitude |-> st.amplitude,
                      value |-> n.value]),
         cache |-> n.cache]

\* one turn of the octave loop of LayeredNoise; calls is the log of the
\* PerlinNoise calls made so far: arguments, the amplitude the value is
\* weighted by, the value returned
LayeredOctave(st, x, y, persistence, seed) ==
    LET n == PerlinNoise(FMul(x, st.frequency), FMul(y, st.frequency),
                         seed + st.i, st.cache)
    IN  [i |-> st.i + 1,
         total |-> st.total + FMul(n.value, st.amplitude),
         maxValue |-> st.maxValue + st.amplitude,
         amplitude |-> FMul(st.amplitude, persistence),
         frequency |-> 2 * st.frequency,
         calls |-> Append(st.calls,
                     [x |-> FMul(x, st.frequency), y |-> FMul(y, st.frequency),
                      seed |-> seed + st.i, amplitude |-> st.amplitude,
                      value |-> n.value]),
         cache |-> n.cache]

RECURSIVE LayeredLoop(_, _, _, _, _, _)
LayeredLoop(st, x, y, octaves, persistence, seed) ==
    IF st.i < octaves
    THEN LayeredLoop(LayeredOctave(st, x, y, persistence, seed),
                     x, y, octaves, persistence, seed)
    ELSE st

\* mutant: the division is guarded by maxValue != 0 instead of maxValue > 0
LayeredNoise_NonZero(x, y, octaves, persistence, scale, seed, cache) ==
    LET st == LayeredLoop([i |-> 0, total |-> 0, maxValue |-> 0,
                           amplitude |-> SCALE, frequency |-> scale,
                           calls |-> <<>>, cache |-> cache],
                          x, y, octaves, persistence, seed)
    IN  [value |-> IF st.maxValue > 0 THEN FDiv(st.total, st.maxValue)
                   ELSE IF st.maxValue < 0 THEN FDiv(-st.total, -st.maxValue)
                   ELSE 0,
         calls |-> st.calls,
         cache |-> st.cache]

LayeredNoise(x, y, octaves, persistence, scale, seed, cache) ==
    LET st == LayeredLoop([i |-> 0, total |-> 0, maxValue |-> 0,
                           amplitude |-> SCALE, frequency |-> scale,
                           calls |-> <<>>, cache |-> cache],
                          x, y, octaves, persistence, seed)
    IN  [value |-> IF st.maxValue > 0 THEN FDiv(st.total, st.maxValue) ELSE 0,
         calls |-> st.calls,
         cache |-> st.cache]

---------------------------------------------------------------------------
(* The monolithic copy of the noise functions (main.cpp before the split)  *)

\* PerlinNoise of the copy: the table is shuffled anew on every call
MonoPerlinNoise(x, y, seed) == PerlinValue(SeededTable(seed), x, y)

RECURSIVE MonoLayeredLoop(_, _, _, _, _, _)
MonoLayeredLoop(st, x, y, octaves, persistence, seed) ==
    IF st.i < octaves
    THEN MonoLayeredLoop(
             [i |-> st.i + 1,
              total |-> st.total
                        + FMul(MonoPerlinNoise(FMul(x, st.frequency),
                                               FMul(y, st.frequency), seed + st.i),
                               st.amplitude),
              maxValue |-> st.maxValue + st.amplitude,
              amplitude |-> FMul(st.amplitude, persistence),
              frequency |-> 2 * st.frequency],
             x, y, octaves, persistence, seed)
    ELSE st

\* LayeredNoise of the copy: total / maxValue without a guard; a division by
\* 0.0f gives an infinity or a NaN, which is no number (finite FALSE)
MonoLayeredNoise(x, y, octaves, persistence, scale, seed) ==
    LET st == MonoLayeredLoop([i |-> 0, total |-> 0, maxValue |-> 0,
                               amplitude |-> SCALE, frequency |-> scale],
                              x, y, octaves, persistence, seed)
    IN  [finite |-> st.maxValue # 0,
         value |-> IF st.maxValue > 0 THEN FDiv(st.total, st.maxValue)
                   ELSE IF st.maxValue < 0 THEN -FDiv(st.total, -st.maxValue)
                   ELSE 0]

---------------------------------------------------------------------------
(* World.cpp: DetermineBiome                                               *)

\* mutant: the forested-hills test uses the plains threshold 0.6
DetermineBiome_HillsAt06(e, m) ==
    IF e < WATER_LEVEL - 5 * SCALE THEN "DEEP_WATER"
    ELSE IF e < WATER_LEVEL THEN "SHALLOW_WATER"
    ELSE IF e < BEACH_LEVEL THEN "BEACH"
    ELSE IF e < PLAINS_LEVEL THEN
        IF m < Dec(3, 10) THEN "PLAINS"
        ELSE IF m < Dec(6, 10) THEN "PLAINS"
        ELSE "FOREST"
    ELSE IF e < HILLS_LEVEL THEN
        IF m < Dec(6, 10) THEN "HILLS" ELSE "FOREST"
    ELSE IF e < MOUNTAIN_LEVEL THEN "MOUNTAINS"
    ELSE "SNOW_CAPS"

\* mutant: the bands are closed above, a threshold falls in the lower band
DetermineBiome_ClosedAbove(e, m) ==
    IF e <= WATER_LEVEL - 5 * SCALE THEN "DEEP_WATER"
    ELSE IF e <= WATER_LEVEL THEN "SHALLOW_WATER"
    ELSE IF e <= BEACH_LEVEL THEN "BEACH"
    ELSE IF e <= PLAINS_LEVEL THEN
        IF m < Dec(3, 10) THEN "PLAINS"
        ELSE IF m < Dec(6, 10) THEN "PLAINS"
        ELSE "FOREST"
    ELSE IF e <= HILLS_LEVEL THEN
        IF m < Dec(4, 10) THEN "HILLS" ELSE "FOREST"
    ELSE IF e <= MOUNTAIN_LEVEL THEN "MOUNTAINS"
    ELSE "SNOW_CAPS"

DetermineBiome(e, m) ==
    IF e < WATER_LEVEL - 5 * SCALE THEN "DEEP_WATER"
    ELSE IF e < WATER_LEVEL THEN "SHALLOW_WATER"
    ELSE IF e < BEACH_LEVEL THEN "BEACH"
    ELSE IF e < PLAINS_LEVEL THEN
        IF m < Dec(3, 10) THEN "PLAINS"
        ELSE IF m < Dec(6, 10) THEN "PLAINS"
        ELSE "FOREST"
    ELSE IF e < HILLS_LEVEL THEN
        IF m < Dec(4, 10) THEN "HILLS" ELSE "FOREST"
    ELSE IF e < MOUNTAIN_LEVEL THEN "MOUNTAINS"
    ELSE "SNOW_CAPS"

---------------------------------------------------------------------------
(* World.cpp: the raw field of GenerateWorld (first loop)                  *)

CONTINENT_OCTAVES == 4
TERRAIN_OCTAVES == 6
RIVER_OCTAVES == 2
RIVER_THRESHOLD == Dec(82, 100)

Abs(v) == IF v < 0 THEN -v ELSE v

\* r * r for 0 <= r <= 1, rounded up to the sixth decimal
SquareUp(r) ==
    LET r1 == r \div 1000
        r0 == r % 1000
    IN  r1 * r1 + ((2000 * r1 * r0 + r0 * r0 + SCALE - 1) \div SCALE)

\* std::sqrt and std::pow(v, 0.5f) for 0 <= v <= 1: the largest r in lo..hi
\* whose exact square does not exceed v (the root of 0 is 0)
RECURSIVE SqrtSearch(_, _, _)
SqrtSearch(v, lo, hi) ==
    IF lo >= hi THEN lo
    ELSE LET mid == (lo + hi + 1) \div 2
         IN  IF SquareUp(mid) <= v THEN SqrtSearch(v, mid, hi)
             ELSE SqrtSearch(v, lo, mid - 1)

FSqrt(v) == SqrtSearch(v, 0, SCALE)

\* the five LayeredNoise calls of a cell, in the order the loop body makes them
NoiseCalls(nx, ny) ==
    << [x |-> FMul(nx, Dec(5, 10)), y |-> FMul(ny, Dec(5, 10)),
        octaves |-> CONTINENT_OCTAVES, persistence |-> Dec(6, 10),
        scale |-> Dec(5, 10), seed |-> 1],
       [x |-> 5 * nx, y |-> 5 * ny, octaves |-> TERRAIN_OCTAVES,
        persistence |-> Dec(5, 10), scale |-> 2 * SCALE, seed |-> 2],
       [x |-> 3 * nx, y |-> 3 * ny, octaves |-> 4, persistence |-> Dec(7, 10),
        scale |-> Dec(15, 10), seed |-> 5],
       [x |-> 4 * nx, y |-> 4 * ny, octaves |-> 4, persistence |-> Dec(5, 10),
        scale |-> 2 * SCALE, seed |-> 3],
       [x |-> 8 * nx, y |-> 8 * ny, octaves |-> RIVER_OCTAVES,
        persistence |-> Dec(7, 10), scale |-> 3 * SCALE, seed |-> 4] >>

\* the values the calls return, each call starting from the static noise
\* cache the one before left; done[1] holds the cache before the first call
RECURSIVE NoiseSequence(_, _)
NoiseSequence(calls, done) ==
    IF Len(done) > Len(calls) THEN done
    ELSE LET c == calls[Len(done)]
         IN  NoiseSequence(calls,
                 Append(done, LayeredNoise(c.x, c.y, c.octaves, c.persistence,
                                           c.scale, c.seed, done[Len(done)].cache)))

\* distanceFromCenter of the cell at the normalised coordinates (nx, ny)
DistanceFromCenter(nx, ny) ==
    LET dx == nx - Dec(5, 10)
        dy == ny - Dec(5, 10)
    IN  2 * FSqrt(FMul(dx, dx) + FMul(dy, dy))

\* islandFactor, after std::pow(islandFactor, 0.5f)
IslandFactor(nx, ny) == FSqrt(SCALE - Min(SCALE, DistanceFromCenter(nx, ny)))

\* mutant: the island factor is applied without the 0.3 floor
Attenuation_NoFloor(nx, ny) == IslandFactor(nx, ny)

\* the multiplier of the blended elevation: islandFactor * 0.7f + 0.3f
Attenuation(nx, ny) == FMul(IslandFactor(nx, ny), Dec(7, 10)) + Dec(3, 10)

\* the cell computed from the results of its calls, with the number of
\* PerlinNoise calls they made
CellOf(nx, ny, continentShape, terrainDetail, ridge, moist, river) ==
    LET fold == SCALE - Abs(2 * ridge.value - SCALE)
        mountain == FMul(FMul(fold, fold), fold)
        blend == 100 * (FMul(continentShape.value, Dec(5, 10))
                        + FMul(terrainDetail.value, Dec(2, 10))
                        + FMul(mountain, Dec(3, 10)))
    IN  [elevation |-> FMul(blend, Attenuation(nx, ny)),
         moisture |-> moist.value,
         riverValue |-> river.value,
         perlinCalls |-> Len(continentShape.calls) + Len(terrainDetail.calls)
                         + Len(ridge.calls) + Len(moist.calls) + Len(river.calls),
         cache |-> river.cache]

CellOfSequence(nx, ny, noise) ==
    CellOf(nx, ny, noise[2], noise[3], noise[4], noise[5], noise[6])

\* elevation, moisture and riverValue of cell (x, y) of a w * h grid, and the
\* static noise cache after the five LayeredNoise calls of the cell
RawCell(x, y, w, h, cache) ==
    CellOfSequence(Dec(x, w), Dec(y, h),
        NoiseSequence(NoiseCalls(Dec(x, w), Dec(y, h)),
                      << [value |-> 0, cache |-> cache] >>))

---------------------------------------------------------------------------
(* World.cpp: rivers and lakes (second loop)                               *)

\* mutant: the bound is assigned without std::min
Lower_Assign(d, bound) == [d EXCEPT !.elevation = bound]

\* data.elevation = std::min(data.elevation, bound)
Lower(d, bound) == [d EXCEPT !.elevation = Min(d.elevation, bound)]

\* mutant: the river strength is added to WATER_LEVEL
RiverBed_Raised(d) ==
    LET riverStrength == FDiv(d.riverValue - RIVER_THRESHOLD, SCALE - RIVER_THRESHOLD)
    IN  WATER_LEVEL + 5 * riverStrength

RiverBed(d) ==
    LET riverStrength == FDiv(d.riverValue - RIVER_THRESHOLD, SCALE - RIVER_THRESHOLD)
    IN  WATER_LEVEL - 5 * riverStrength

\* the three clamps, each with the guard under which the loop body runs it
RiverClamp(d) ==
    IF d.riverValue > RIVER_THRESHOLD THEN Lower(d, RiverBed(d)) ELSE d

TributaryClamp(d) ==
    IF /\ d.riverValue > RIVER_THRESHOLD
       /\ d.riverValue > RIVER_THRESHOLD - Dec(1, 10)
       /\ d.riverValue <= RIVER_THRESHOLD
    THEN Lower(d, WATER_LEVEL - SCALE)
    ELSE d

LakeClamp(d) ==
    IF d.elevation < WATER_LEVEL + 5 * SCALE /\ d.moisture > Dec(7, 10)
    THEN Lower(d, WATER_LEVEL - 2 * SCALE)
    ELSE d

\* mutant: the lake test runs before the river branch
CarveCell_LakeFirst(d) ==
    LET afterLake ==
            IF d.elevation < WATER_LEVEL + 5 * SCALE /\ d.moisture > Dec(7, 10)
            THEN Lower(d, WATER_LEVEL - 2 * SCALE)
            ELSE d
    IN  IF afterLake.riverValue > RIVER_THRESHOLD
        THEN Lower(afterLake, RiverBed(afterLake))
        ELSE afterLake

\* the loop body: the tributary test sits inside the river branch
CarveCell(d) ==
    LET afterRiver ==
            IF d.riverValue > RIVER_THRESHOLD
            THEN LET carved == Lower(d, RiverBed(d))
                 IN  IF /\ d.riverValue > RIVER_THRESHOLD - Dec(1, 10)
                        /\ d.riverValue <= RIVER_THRESHOLD
                     THEN Lower(carved, WATER_LEVEL - SCALE)
                     ELSE carved
            ELSE d
    IN  IF afterRiver.elevation < WATER_LEVEL + 5 * SCALE
           /\ afterRiver.moisture > Dec(7, 10)
        THEN Lower(afterRiver, WATER_LEVEL - 2 * SCALE)
        ELSE afterRiver

---------------------------------------------------------------------------
(* World.cpp: smoothing (third loop) and its commit (fourth loop)          *)

\* total and count of the inner loop over nx, then of the loop over ny;
\* cells lists the (nx, ny) read, in the order the loops read them
RECURSIVE KernelRow(_, _, _, _)
KernelRow(grid, ny, nx, lastx) ==
    IF nx > lastx THEN [total |-> 0, count |-> 0, cells |-> <<>>]
    ELSE LET rest == KernelRow(grid, ny, nx + 1, lastx)
         IN  [total |-> grid[ny][nx].elevation + rest.total,
              count |-> 1 + rest.count,
              cells |-> <<(<<nx, ny>>)>> \o rest.cells]

RECURSIVE Kernel(_, _, _, _, _)
Kernel(grid, ny, lasty, firstx, lastx) ==
    IF ny > lasty THEN [total |-> 0, count |-> 0, cells |-> <<>>]
    ELSE LET row == KernelRow(grid, ny, firstx, lastx)
             rest == Kernel(grid, ny + 1, lasty, firstx, lastx)
         IN  [total |-> row.total + rest.total, count |-> row.count + rest.count,
              cells |-> row.cells \o rest.cells]

\* mutant: the loop over ny starts at row 1 at the earliest
SmoothKernel_FromRow1(grid, x, y, w, h) ==
    Kernel(grid, Max(1, y - 1), Min(h - 1, y + 1), Max(0, x - 1), Min(w - 1, x + 1))

\* the two loops over the neighbours of (x, y), with their clamped bounds
SmoothKernel(grid, x, y, w, h) ==
    Kernel(grid, Max(0, y - 1), Min(h - 1, y + 1), Max(0, x - 1), Min(w - 1, x + 1))

\* mutant: a cell exactly at WATER_LEVEL is blended like land
SmoothCell_StrictWater(grid, x, y, w, h) ==
    LET k == SmoothKernel(grid, x, y, w, h)
        own == grid[y][x].elevation
    IN  IF own < WATER_LEVEL THEN own
        ELSE FMul(k.total \div k.count, Dec(7, 10)) + FMul(own, Dec(3, 10))

\* the value stored in smoothedElevation[y][x]
SmoothCell(grid, x, y, w, h) ==
    LET k == SmoothKernel(grid, x, y, w, h)
        own == grid[y][x].elevation
    IN  IF own <= WATER_LEVEL THEN own
        ELSE FMul(k.total \div k.count, Dec(7, 10)) + FMul(own, Dec(3, 10))

---------------------------------------------------------------------------
(* World.cpp: CreateBiomeProperties and tile finalization (fifth loop)     *)

Color(r, g, b, a) == [r |-> r, g |-> g, b |-> b, a |-> a]

\* mutant: the map has no entry for SNOW_CAPS
BiomePropertyKeys_NoSnowCaps ==
    {"DEEP_WATER", "SHALLOW_WATER", "BEACH", "PLAINS", "FOREST", "HILLS",
     "MOUNTAINS"}

\* the keys of the map CreateBiomeProperties returns
BiomePropertyKeys ==
    {"DEEP_WATER", "SHALLOW_WATER", "BEACH", "PLAINS", "FOREST", "HILLS",
     "MOUNTAINS", "SNOW_CAPS"}

\* the entry of the map for the key b
CreateBiomeProperties(b) ==
    CASE b = "DEEP_WATER" ->
            [baseColor |-> Color(0, 64, 220, 255), heightModifier |-> Dec(3, 10),
             roughness |-> Dec(1, 10), walkable |-> FALSE]
      [] b = "SHALLOW_WATER" ->
            [baseColor |-> Color(0, 128, 255, 255), heightModifier |-> Dec(5, 10),
             roughness |-> Dec(2, 10), walkable |-> FALSE]
      [] b = "BEACH" ->
            [baseColor |-> Color(240, 220, 180, 255), heightModifier |-> Dec(6, 10),
             roughness |-> Dec(2, 10), walkable |-> TRUE]
      [] b = "PLAINS" ->
            [baseColor |-> Color(100, 210, 100, 255), heightModifier |-> Dec(10, 10),
             roughness |-> Dec(3, 10), walkable |-> TRUE]
      [] b = "FOREST" ->
            [baseColor |-> Color(21, 120, 35, 255), heightModifier |-> Dec(11, 10),
             roughness |-> Dec(4, 10), walkable |-> TRUE]
      [] b = "HILLS" ->
            [baseColor |-> Color(90, 160, 90, 255), heightModifier |-> Dec(12, 10),
             roughness |-> Dec(6, 10), walkable |-> TRUE]
      [] b = "MOUNTAINS" ->
            [baseColor |-> Color(150, 140, 130, 255), heightModifier |-> Dec(15, 10),
             roughness |-> Dec(8, 10), walkable |-> FALSE]
      [] b = "SNOW_CAPS" ->
            [baseColor |-> Color(255, 255, 255, 255), heightModifier |-> Dec(16, 10),
             roughness |-> Dec(9, 10), walkable |-> FALSE]

\* std::clamp(v, lo, hi)
Clamp(v, lo, hi) == IF v < lo THEN lo ELSE IF v > hi THEN hi ELSE v

\* the three draws of std::uniform_int_distribution<int>(-5, 5) are jr, jg, jb
TileColor(x, y, w, h, base, jr, jg, jb) ==
    IF (x + y) % 10 = 0 THEN Color(255, 0, 0, 255)
    ELSE IF x = 0 \/ y = 0 \/ x = w - 1 \/ y = h - 1 THEN Color(255, 255, 0, 255)
    ELSE IF x = w \div 2 \/ y = h \div 2 THEN Color(0, 0, 255, 255)
    ELSE Color(Clamp(base.r + jr, 0, 255), Clamp(base.g + jg, 0, 255),
               Clamp(base.b + jb, 0, 255), 255)

\* mutant: the two coordinates are stored in each other's field
FinalTile_Swapped(x, y, d, color) ==
    [x |-> y, y |-> x, elevation |-> TruncToInt(d.elevation), color |-> color,
     walkable |-> CreateBiomeProperties(d.biome).walkable]

\* the tile written for cell (x, y) whose terrain data (biome assigned) is d
\* mutant: every tile at or above WATER_LEVEL is walkable
FinalTile_WalkableLand(x, y, d, color) ==
    [x |-> x, y |-> y, elevation |-> TruncToInt(d.elevation), color |-> color,
     walkable |-> d.elevation >= WATER_LEVEL]

FinalTile(x, y, d, color) ==
    [x |-> x, y |-> y, elevation |-> TruncToInt(d.elevation), color |-> color,
     walkable |-> CreateBiomeProperties(d.biome).walkable]

---------------------------------------------------------------------------
(* World.cpp: GenerateWorld, one step per loop iteration                   *)

\* value-initialized elements of the vectors
ZeroTile == [x |-> 0, y |-> 0, elevation |-> 0, color |-> Color(0, 0, 0, 0),
             walkable |-> FALSE]
ZeroData == [elevation |-> 0, moisture |-> 0, riverValue |-> 0,
             biome |-> "DEEP_WATER"]
Grid(w, h, v) == [yy \in 0 .. (h - 1) |-> [xx \in 0 .. (w - 1) |-> v]]

\* "for (y = 0; y < HEIGHT; ++y) for (x = 0; x < WIDTH; ++x)": the indices of
\* the first body run (no body runs when the width is 0), and of the next
LoopStart == cx' = 0 /\ cy' = IF width > 0 THEN 0 ELSE Max(height, 0)
LoopNext ==
    IF cx + 1 < width THEN cx' = cx + 1 /\ cy' = cy
    ELSE cx' = 0 /\ cy' = cy + 1
InBody(loop) == pc = loop /\ cy < height

\* what of a tile the determinism of generation is about (all but colour)
Shape(grid) ==
    [yy \in DOMAIN grid |-> [xx \in DOMAIN grid[yy] |->
        [x |-> grid[yy][xx].x, y |-> grid[yy][xx].y,
         elevation |-> grid[yy][xx].elevation, walkable |-> grid[yy][xx].walkable]]]

\* number of GenerateWorld calls followed
MaxRuns == 2

\* the values std::uniform_int_distribution<int>(-5, 5) yields, and the
\* three draws of one tile
JitterValues == (-5) .. 5
JitterTriples == JitterValues \X JitterValues \X JitterValues

\* the cell lies outside the debug colouring pattern: its colour is the base
\* colour of the biome plus three draws of variation(gen)
Jittered(x, y, w, h) ==
    /\ (x + y) % 10 # 0
    /\ x # 0 /\ y # 0 /\ x # w - 1 /\ y # h - 1
    /\ x # w \div 2 /\ y # h \div 2

JitteredCells(w, h) ==
    {c \in (0 .. (w - 1)) \X (0 .. (h - 1)) : Jittered(c[1], c[2], w, h)}

\* the draws of one GenerateWorld call: three for each cell outside the
\* pattern
GridJitters(w, h) == [JitteredCells(w, h) -> JitterTriples]

\* the two grids are allocated; a size that is not negative is a valid
\* element count
Begin ==
    /\ pc = "idle" /\ runs < MaxRuns
    /\ width >= 0 /\ height >= 0
    /\ world' = Grid(width, height, ZeroTile)
    /\ terrainData' = Grid(width, height, ZeroData)
    /\ smoothedElevation' = <<>>
    /\ pc' = "raw" /\ LoopStart
    /\ outcome' = "running"
    /\ noiseCalls' = 0
    /\ UNCHANGED <<width, height, runs, rawData, carvedData, firstGrid>>
    /\ UNCHANGED <<noiseVars, callVars, unitVars, biomeVars, gameVars>>

\* a negative size converts to a size_t beyond max_size(): the vector
\* constructor throws std::length_error, which nothing catches
BeginThrows ==
    /\ pc = "idle" /\ runs < MaxRuns
    /\ width < 0 \/ height < 0
    /\ pc' = "terminated"
    /\ outcome' = "length_error"
    /\ UNCHANGED <<noiseCalls, width, height, cx, cy, terrainData, smoothedElevation, world,
                   runs, rawData, carvedData, firstGrid>>
    /\ UNCHANGED <<noiseVars, callVars, unitVars, biomeVars, gameVars>>


Pass1Cell ==
    /\ InBody("raw")
    /\ LET c == RawCell(cx, cy, width, height, [p |-> p, lastSeed |-> lastSeed])
       IN  /\ terrainData' = [terrainData EXCEPT ![cy][cx] =
                   [@ EXCEPT !.elevation = c.elevation, !.moisture = c.moisture,
                             !.riverValue = c.riverValue]]
           /\ p' = c.cache.p
           /\ lastSeed' = c.cache.lastSeed
           /\ noiseCalls' = noiseCalls + c.perlinCalls
    /\ LoopNext
    /\ UNCHANGED <<width, height, pc, smoothedElevation, world, outcome, runs,
                   rawData, carvedData, firstGrid>>
    /\ UNCHANGED <<callVars, unitVars, biomeVars, gameVars>>

\* mutant: the first loop is left one row early
Pass1End_RowEarly ==
    /\ pc = "raw" /\ cy >= height - 1
    /\ pc' = "carve" /\ LoopStart
    /\ rawData' = terrainData
    /\ UNCHANGED <<noiseCalls, width, height, terrainData, smoothedElevation,
                   world, outcome, runs, carvedData, firstGrid>>
    /\ UNCHANGED <<noiseVars, callVars, unitVars, biomeVars, gameVars>>

Pass1End ==
    /\ pc = "raw" /\ cy >= height
    /\ pc' = "carve" /\ LoopStart
    /\ rawData' = terrainData
    /\ UNCHANGED <<noiseCalls, width, height, terrainData, smoothedElevation, world, outcome,
                   runs, carvedData, firstGrid>>
    /\ UNCHANGED <<noiseVars, callVars, unitVars, biomeVars, gameVars>>

Pass2Cell ==
    /\ InBody("carve")
    /\ terrainData' = [terrainData EXCEPT ![cy][cx] = CarveCell(@)]
    /\ LoopNext
    /\ UNCHANGED <<noiseCalls, width, height, pc, smoothedElevation, world, outcome, runs,
                   rawData, carvedData, firstGrid>>
    /\ UNCHANGED <<noiseVars, callVars, unitVars, biomeVars, gameVars>>

Pass2End ==
    /\ pc = "carve" /\ cy >= height
    /\ pc' = "smooth" /\ LoopStart
    /\ smoothedElevation' = Grid(width, height, 0)
    /\ carvedData' = terrainData
    /\ UNCHANGED <<noiseCalls, width, height, terrainData, world, outcome, runs, rawData,
                   firstGrid>>
    /\ UNCHANGED <<noiseVars, callVars, unitVars, biomeVars, gameVars>>

\* mutant: the smoothed value is also written straight into the terrain grid
Pass3Cell_InPlace ==
    /\ InBody("smooth")
    /\ smoothedElevation' = [smoothedElevation EXCEPT ![cy][cx] =
            SmoothCell(terrainData, cx, cy, width, height)]
    /\ terrainData' = [terrainData EXCEPT ![cy][cx].elevation =
            SmoothCell(terrainData, cx, cy, width, height)]
    /\ LoopNext
    /\ UNCHANGED <<noiseCalls, width, height, pc, world, outcome, runs,
                   rawData, carvedData, firstGrid>>
    /\ UNCHANGED <<noiseVars, callVars, unitVars, biomeVars, gameVars>>

Pass3Cell ==
    /\ InBody("smooth")
    /\ smoothedElevation' = [smoothedElevation EXCEPT ![cy][cx] =
            SmoothCell(terrainData, cx, cy, width, height)]
    /\ LoopNext
    /\ UNCHANGED <<noiseCalls, width, height, pc, terrainData, world, outcome, runs,
                   rawData, carvedData, firstGrid>>
    /\ UNCHANGED <<noiseVars, callVars, unitVars, biomeVars, gameVars>>

Pass3End ==
    /\ pc = "smooth" /\ cy >= height
    /\ pc' = "commit" /\ LoopStart
    /\ UNCHANGED <<noiseCalls, width, height, terrainData, smoothedElevation, world, outcome,
                   runs, rawData, carvedData, firstGrid>>
    /\ UNCHANGED <<noiseVars, callVars, unitVars, biomeVars, gameVars>>

CommitCell ==
    /\ InBody("commit")
    /\ terrainData' = [terrainData EXCEPT ![cy][cx].elevation =
                            smoothedElevation[cy][cx]]
    /\ LoopNext
    /\ UNCHANGED <<noiseCalls, width, height, pc, smoothedElevation, world, outcome, runs,
                   rawData, carvedData, firstGrid>>
    /\ UNCHANGED <<noiseVars, callVars, unitVars, biomeVars, gameVars>>

CommitEnd ==
    /\ pc = "commit" /\ cy >= height
    /\ pc' = "finalize" /\ LoopStart
    /\ UNCHANGED <<noiseCalls, width, height, terrainData, smoothedElevation, world, outcome,
                   runs, rawData, carvedData, firstGrid>>
    /\ UNCHANGED <<noiseVars, callVars, unitVars, biomeVars, gameVars>>

\* a biome without an entry makes biomeProps.at throw std::out_of_range,
\* which nothing catches; variation(gen) is drawn from for a cell outside
\* the debug pattern only
Pass4Cell ==
    /\ InBody("finalize")
    /\ \E j \in IF Jittered(cx, cy, width, height) THEN JitterTriples
                ELSE {<<0, 0, 0>>} :
        LET data == terrainData[cy][cx]
            d == [data EXCEPT !.biome = DetermineBiome(data.elevation, data.moisture)]
        IN  /\ terrainData' = [terrainData EXCEPT ![cy][cx] = d]
            /\ IF d.biome \in BiomePropertyKeys
               THEN /\ world' = [world EXCEPT ![cy][cx] =
                           FinalTile(cx, cy, d,
                               TileColor(cx, cy, width, height,
                                         CreateBiomeProperties(d.biome).baseColor,
                                         j[1], j[2], j[3]))]
                    /\ LoopNext
                    /\ UNCHANGED <<pc, outcome>>
               ELSE /\ pc' = "terminated"
                    /\ outcome' = "out_of_range"
                    /\ UNCHANGED <<world, cx, cy>>
    /\ UNCHANGED <<noiseCalls, width, height, smoothedElevation, runs,
                   rawData, carvedData, firstGrid>>
    /\ UNCHANGED <<noiseVars, callVars, unitVars, biomeVars, gameVars>>

\* the statistics loop only reads the grid; then "return world"
Return ==
    /\ pc = "finalize" /\ cy >= height
    /\ pc' = "idle"
    /\ outcome' = "returned"
    /\ runs' = runs + 1
    /\ firstGrid' = IF runs = 0 THEN Shape(world) ELSE firstGrid
    /\ UNCHANGED <<noiseCalls, width, height, cx, cy, terrainData, smoothedElevation, world,
                   rawData, carvedData>>
    /\ UNCHANGED <<noiseVars, callVars, unitVars, biomeVars, gameVars>>

Generate ==
    \/ Begin \/ Pass1Cell \/ Pass1End \/ Pass2Cell \/ Pass2End
    \/ Pass3Cell \/ Pass3End \/ CommitCell \/ CommitEnd \/ Pass4Cell \/ Return

---------------------------------------------------------------------------
(* main: the game loop (Noise.cpp), HandlePlayerMovement (Player.cpp),     *)
(* Camera::update (Camera.cpp), WorldToScreen and RenderTile (Renderer.cpp) *)

PLAYER_SPEED == 5 * SCALE
JUMP_FORCE == 10 * SCALE
GRAVITY == Dec(3, 10)
INITIAL_ELEVATION == 0
SCREEN_WIDTH == 1280
SCREEN_HEIGHT == 800
TILE_WIDTH == 96
TILE_HEIGHT == 48

\* mutant: the position is clamped from above only
ClampToWorld_UpperOnly(v, size) == Min(v, (size - 2) * SCALE)

\* std::max(1.0f, std::min(v, static_cast<float>(size - 2)))
ClampToWorld(v, size) == Max(SCALE, Min(v, (size - 2) * SCALE))

\* mutant: SPACE starts a jump whether or not the player is in the air
StartsJump_InTheAir(pl, keystate) == "SPACE" \in keystate

\* keystate[SDL_SCANCODE_SPACE] && !player.isJumping
StartsJump(pl, keystate) == "SPACE" \in keystate /\ ~pl.isJumping

\* mutant: gravity stops acting once the player no longer rises
Fall_WhileRising(velocityZ) == Max(velocityZ - GRAVITY, 0)

\* player.velocityZ -= GRAVITY
Fall(velocityZ) == velocityZ - GRAVITY

\* the player after HandlePlayerMovement(player, keystate, deltaTime, world);
\* keystate is the set of keys held down among W, A, S, D, SPACE
HandlePlayerMovement(pl, keystate, deltaTime, grid, w, h) ==
    LET moveSpeed == 5 * FMul(PLAYER_SPEED, deltaTime)
        movedY == pl.y - (IF "W" \in keystate THEN moveSpeed ELSE 0)
                       + (IF "S" \in keystate THEN moveSpeed ELSE 0)
        movedX == pl.x - (IF "A" \in keystate THEN moveSpeed ELSE 0)
                       + (IF "D" \in keystate THEN moveSpeed ELSE 0)
        x == ClampToWorld(movedX, w)
        y == ClampToWorld(movedY, h)
        tileX == TruncToInt(x)
        tileY == TruncToInt(y)
        inWorld == tileX >= 0 /\ tileX < w /\ tileY >= 0 /\ tileY < h
        followed == IF inWorld /\ ~pl.isJumping
                    THEN pl.elevation
                         + FMul(grid[tileY][tileX].elevation * SCALE - pl.elevation,
                                Dec(2, 10))
                    ELSE pl.elevation
        starts == StartsJump(pl, keystate)
        jumping == pl.isJumping \/ starts
        velocityZ == Fall(IF starts THEN JUMP_FORCE ELSE pl.velocityZ)
        terrainHeight == IF inWorld THEN grid[tileY][tileX].elevation * SCALE
                         ELSE INITIAL_ELEVATION
    IN  IF ~jumping
        THEN [x |-> x, y |-> y, elevation |-> followed,
              velocityZ |-> pl.velocityZ, isJumping |-> FALSE]
        ELSE IF followed + velocityZ <= terrainHeight
        THEN [x |-> x, y |-> y, elevation |-> terrainHeight,
              velocityZ |-> 0, isJumping |-> FALSE]
        ELSE [x |-> x, y |-> y, elevation |-> followed + velocityZ,
              velocityZ |-> velocityZ, isJumping |-> TRUE]

\* Camera::update
CameraUpdate(pl) ==
    [x |-> (pl.x - pl.y) * (TILE_WIDTH \div 2) - (SCREEN_WIDTH \div 2) * SCALE,
     y |-> (pl.x + pl.y) * (TILE_HEIGHT \div 2) - pl.elevation
           - (SCREEN_HEIGHT \div 2) * SCALE]

\* WorldToScreen: the outputs screenX, screenY
WorldToScreen(worldX, worldY, tileElevation, cam, pl) ==
    LET relativeX == worldX - pl.x
        relativeY == worldY - pl.y
        relativeElevation == tileElevation - pl.elevation
    IN  [x |-> TruncToInt((relativeX - relativeY) * (TILE_WIDTH \div 2))
               + SCREEN_WIDTH \div 2,
         y |-> TruncToInt((relativeX + relativeY) * (TILE_HEIGHT \div 2)
                          - relativeElevation)
               + SCREEN_HEIGHT \div 2]

Outline(channel) == IF channel > 128 THEN channel - 40 ELSE channel + 40

\* RenderTile: what it draws on the renderer, nothing when the tile is off
\* the screen
RenderTile(tile, cam, pl) ==
    LET at == WorldToScreen(tile.x * SCALE, tile.y * SCALE, tile.elevation * SCALE,
                            cam, pl)
    IN  IF /\ at.x + TILE_WIDTH > 0 /\ at.x - TILE_WIDTH < SCREEN_WIDTH
           /\ at.y + TILE_HEIGHT > 0 /\ at.y - TILE_HEIGHT < SCREEN_HEIGHT
        THEN << [x |-> at.x, y |-> at.y, fill |-> tile.color,
                 outline |-> Color(Outline(tile.color.r), Outline(tile.color.g),
                                   Outline(tile.color.b), 255)] >>
        ELSE <<>>

\* the render loop of main from cell number k (row by row) on
RECURSIVE RenderTiles(_, _, _, _, _, _)
RenderTiles(grid, w, h, cam, pl, k) ==
    IF k >= w * h THEN <<>>
    ELSE LET x == k % w
             y == k \div w
             at == WorldToScreen(x * SCALE, y * SCALE, grid[y][x].elevation * SCALE,
                                 cam, pl)
         IN  (IF /\ at.x > -TILE_WIDTH /\ at.x < SCREEN_WIDTH + TILE_WIDTH
                 /\ at.y > -TILE_HEIGHT /\ at.y < SCREEN_HEIGHT + TILE_HEIGHT
              THEN RenderTile(grid[y][x], cam, pl)
              ELSE <<>>)
             \o RenderTiles(grid, w, h, cam, pl, k + 1)

\* iterations of the game loop and events polled in one iteration followed
MaxFrames == 2
MaxEvents == 1

\* the SDL events of the loop: SDL_QUIT and SDL_KEYDOWN of the keys with a
\* branch in main, and of one key without
EventKeys == {"QUIT", "ESCAPE", "F3", "UP", "DOWN", "LEFT", "RIGHT", "r", "t", "w"}

\* keyboard states and frame times (seconds) followed
KeyStates == {{}, {"W"}, {"D"}, {"A", "S"}, {"SPACE"}, {"D", "SPACE"}}
DeltaTimes == {Dec(2, 100), Dec(4, 100)}

\* the tile and the camera of the test key
TestTile == [x |-> 0, y |-> 0, elevation |-> 0, color |-> Color(255, 0, 0, 255),
             walkable |-> FALSE]
TestCamera == [x |-> 0, y |-> 0]

\* the player after the SDL_KEYDOWN branch of the key: the arrow keys move
\* it by one tile, r puts it back at its start
KeyDown(pl, key) ==
    CASE key = "UP" -> [pl EXCEPT !.y = @ - SCALE]
      [] key = "DOWN" -> [pl EXCEPT !.y = @ + SCALE]
      [] key = "LEFT" -> [pl EXCEPT !.x = @ - SCALE]
      [] key = "RIGHT" -> [pl EXCEPT !.x = @ + SCALE]
      [] key = "r" -> [pl EXCEPT !.x = 10 * SCALE, !.y = 10 * SCALE,
                                 !.elevation = 30 * SCALE]
      [] OTHER -> pl

\* one turn of "while (SDL_PollEvent(&event))"
PollEvent(key) ==
    /\ pc = "events" /\ frames < MaxFrames /\ polled < MaxEvents
    /\ polled' = polled + 1
    /\ running' = IF key \in {"QUIT", "ESCAPE"} THEN FALSE ELSE running
    /\ debugMode' = IF key = "F3" THEN ~debugMode ELSE debugMode
    /\ player' = KeyDown(player, key)
    /\ frame' = IF key = "t" THEN frame \o RenderTile(TestTile, TestCamera, player)
                ELSE frame
    /\ UNCHANGED <<camera, frames>>
    /\ UNCHANGED <<noiseVars, callVars, unitVars, worldVars, biomeVars>>

\* the event queue is empty
PollEnd ==
    /\ pc = "events" /\ frames < MaxFrames
    /\ pc' = "move"
    /\ polled' = 0
    /\ UNCHANGED <<noiseCalls, width, height, cx, cy, terrainData,
                   smoothedElevation, world, outcome, runs, rawData, carvedData,
                   firstGrid>>
    /\ UNCHANGED <<player, camera, running, debugMode, frame, frames>>
    /\ UNCHANGED <<noiseVars, callVars, unitVars, biomeVars>>

\* more than 16 ms since the last movement: HandlePlayerMovement is called
Move(keystate, deltaTime) ==
    /\ pc = "move"
    /\ player' = HandlePlayerMovement(player, keystate, deltaTime, world,
                                      width, height)
    /\ pc' = "camera"
    /\ UNCHANGED <<noiseCalls, width, height, cx, cy, terrainData,
                   smoothedElevation, world, outcome, runs, rawData, carvedData,
                   firstGrid>>
    /\ UNCHANGED <<camera, running, debugMode, frame, frames, polled>>
    /\ UNCHANGED <<noiseVars, callVars, unitVars, biomeVars>>

\* at most 16 ms since the last movement
MoveSkipped ==
    /\ pc = "move"
    /\ pc' = "camera"
    /\ UNCHANGED <<noiseCalls, width, height, cx, cy, terrainData,
                   smoothedElevation, world, outcome, runs, rawData, carvedData,
                   firstGrid>>
    /\ UNCHANGED <<noiseVars, callVars, unitVars, biomeVars, gameVars>>

\* camera.update(player); SDL_RenderClear
CameraStep ==
    /\ pc = "camera"
    /\ camera' = CameraUpdate(player)
    /\ frame' = <<>>
    /\ pc' = "render"
    /\ UNCHANGED <<noiseCalls, width, height, cx, cy, terrainData,
                   smoothedElevation, world, outcome, runs, rawData, carvedData,
                   firstGrid>>
    /\ UNCHANGED <<player, running, debugMode, frames, polled>>
    /\ UNCHANGED <<noiseVars, callVars, unitVars, biomeVars>>

\* mutant: drawing a tile stores its outline colour in the tile
RenderFrame_Recolours ==
    /\ pc = "render"
    /\ frame' = RenderTiles(world, width, height, camera, player, 0)
    /\ world' = [yy \in DOMAIN world |-> [xx \in DOMAIN world[yy] |->
                    [world[yy][xx] EXCEPT !.color =
                        Color(Outline(@.r), Outline(@.g), Outline(@.b), 255)]]]
    /\ frames' = Min(frames + 1, MaxFrames)
    /\ pc' = IF running THEN "events" ELSE "exit"
    /\ UNCHANGED <<noiseCalls, width, height, cx, cy, terrainData,
                   smoothedElevation, outcome, runs, rawData, carvedData,
                   firstGrid>>
    /\ UNCHANGED <<player, camera, running, debugMode, polled>>
    /\ UNCHANGED <<noiseVars, callVars, unitVars, biomeVars>>

\* the render loop, RenderPlayer, the debug overlay, SDL_RenderPresent and
\* the test "while (running)"; frames counts the iterations up to MaxFrames
RenderFrame ==
    /\ pc = "render"
    /\ frame' = RenderTiles(world, width, height, camera, player, 0)
    /\ frames' = Min(frames + 1, MaxFrames)
    /\ pc' = IF running THEN "events" ELSE "exit"
    /\ UNCHANGED <<noiseCalls, width, height, cx, cy, terrainData,
                   smoothedElevation, world, outcome, runs, rawData, carvedData,
                   firstGrid>>
    /\ UNCHANGED <<player, camera, running, debugMode, polled>>
    /\ UNCHANGED <<noiseVars, callVars, unitVars, biomeVars>>

GameLoop ==
    \/ \E key \in EventKeys : PollEvent(key)
    \/ PollEnd
    \/ \E keystate \in KeyStates, deltaTime \in DeltaTimes : Move(keystate, deltaTime)
    \/ MoveSkipped
    \/ CameraStep
    \/ RenderFrame

---------------------------------------------------------------------------
(* States after construction                                               *)

NoCall == [made |-> FALSE, x |-> 0, y |-> 0, seed |-> 0]

NoiseInit == p = InitialTable /\ lastSeed = InitialSeed
NoLookups == [X |-> 0, Y |-> 0, reads |-> <<>>]
NoGrad == [made |-> FALSE, hash |-> 0, x |-> 0, y |-> 0, u |-> 0, v |-> 0,
           value |-> 0]
NoLayered == [made |-> FALSE, x |-> 0, y |-> 0, octaves |-> 0, persistence |-> 0,
              scale |-> 0, seed |-> 0, calls |-> <<>>, value |-> 0]
NoIsland == [made |-> FALSE, x |-> 0, y |-> 0, w |-> 0, h |-> 0,
             distance |-> 0, factor |-> 0, multiplier |-> 0]
\* main has not reached the game loop
NoPlayer == [x |-> 0, y |-> 0, elevation |-> 0, velocityZ |-> 0, isJumping |-> FALSE]
NoPlayerCall == [made |-> FALSE, walked |-> 0]

CallInit ==
    /\ call = NoCall /\ result = 0 /\ ref = [args |-> NoCall, value |-> 0]
    /\ lookups = NoLookups
    /\ gradCall = NoGrad /\ layered = NoLayered /\ island = NoIsland
    /\ playerCall = NoPlayerCall

BiomeIdle == elevation = 0 /\ moisture = 0 /\ biome = "none"

NoCamera == [x |-> 0, y |-> 0]
GameIdle ==
    /\ player = NoPlayer /\ camera = NoCamera
    /\ running = FALSE /\ debugMode = FALSE
    /\ frame = <<>> /\ frames = 0 /\ polled = 0

\* before the first GenerateWorld call of a build with the sizes w, h
WorldInit(w, h) ==
    /\ width = w /\ height = h
    /\ pc = "idle" /\ cx = 0 /\ cy = 0
    /\ terrainData = <<>> /\ smoothedElevation = <<>> /\ world = <<>>
    /\ outcome = "none" /\ runs = 0 /\ noiseCalls = 0
    /\ rawData = <<>> /\ carvedData = <<>> /\ firstGrid = <<>>

\* grid sizes followed (WORLD_WIDTH = WORLD_HEIGHT = 128 in GameConstants.h)
MaxDim == 4

---------------------------------------------------------------------------
(* The program: main builds one world; GenerateWorld may be called again   *)

Init ==
    /\ NoiseInit /\ CallInit /\ GameIdle /\ BiomeIdle
    /\ \E w \in 1 .. MaxDim, h \in 1 .. MaxDim : WorldInit(w, h)

Next == Generate

Spec == Init /\ [][Next]_vars

\* the program rebuilt with other values of WORLD_WIDTH and WORLD_HEIGHT,
\* sizes that are not positive among them
InitDim ==
    /\ NoiseInit /\ CallInit /\ GameIdle /\ BiomeIdle
    /\ \E w \in (-1) .. MaxDim, h \in (-1) .. MaxDim : WorldInit(w, h)

NextDim == Generate \/ BeginThrows

SpecDim == InitDim /\ [][NextDim]_vars

---------------------------------------------------------------------------
(* PerlinNoise called directly, any arguments in any order                 *)

\* arguments: negative, integral and fractional coordinates, one in the last
\* lattice cell (X = 255); seeds -1 .. MaxSeed
MaxSeed == 1
NoiseXs == {Dec(-1027, 4), Dec(-3, 2), 0, Dec(1, 2), Dec(1023, 4)}
NoiseYs == {-SCALE, Dec(1, 4), Dec(1, 2)}
NoiseSeeds == (-1) .. MaxSeed

\* a read outside the vector is undefined behaviour: the call may return any
\* value (those followed: the ends and the middle of the range of the noise)
UndefinedValues == {-SCALE, 0, SCALE}

PerlinCall(x, y, seed, keep) ==
    /\ LET c == Reseed([p |-> p, lastSeed |-> lastSeed], seed)
           args == [made |-> TRUE, x |-> x, y |-> y, seed |-> seed]
       IN  /\ p' = c.p
           /\ lastSeed' = c.lastSeed
           /\ call' = args
           /\ lookups' = PerlinLookups(p', x, y)
           /\ \E value \in (IF \A i \in 1 .. Len(lookups'.reads) :
                                   InTable(p', lookups'.reads[i])
                             THEN {PerlinValue(p', x, y)} ELSE UndefinedValues) :
                 /\ result' = value
                 /\ ref' = IF keep THEN [args |-> args, value |-> value] ELSE ref
    /\ UNCHANGED <<unitVars, worldVars, biomeVars, gameVars>>

InitNoise == NoiseInit /\ CallInit /\ GameIdle /\ BiomeIdle /\ WorldInit(MaxDim, MaxDim)

NextNoise ==
    \E x \in NoiseXs, y \in NoiseYs, seed \in NoiseSeeds :
        \E keep \in (IF ref.args.made THEN {FALSE} ELSE BOOLEAN) :
            PerlinCall(x, y, seed, keep)

SpecNoise == InitNoise /\ [][NextNoise]_vars

---------------------------------------------------------------------------
(* LayeredNoise called directly, any arguments in any order                *)

\* octave counts -1 .. MaxOctaves; persistence negative, zero and positive;
\* the seed -1 of the static cache's initial state and a positive one
MaxOctaves == 3
LayeredOctaves == (-1) .. MaxOctaves
LayeredPersistences == {-2 * SCALE, -SCALE, 0, Dec(1, 2)}
LayeredXs == {Dec(3, 10)}
LayeredYs == {Dec(-17, 10)}
LayeredScales == {Dec(1, 2), 2 * SCALE}
LayeredSeeds == {-1, 1}

LayeredCall(x, y, octaves, persistence, scale, seed) ==
    /\ LET r == LayeredNoise(x, y, octaves, persistence, scale, seed,
                             [p |-> p, lastSeed |-> lastSeed])
       IN  /\ p' = r.cache.p
           /\ lastSeed' = r.cache.lastSeed
           /\ layered' = [made |-> TRUE, x |-> x, y |-> y, octaves |-> octaves,
                          persistence |-> persistence, scale |-> scale,
                          seed |-> seed, calls |-> r.calls, value |-> r.value]
    /\ UNCHANGED <<callVars, gradCall, island, playerCall, worldVars, biomeVars, gameVars>>

InitLayered == NoiseInit /\ CallInit /\ GameIdle /\ BiomeIdle /\ WorldInit(MaxDim, MaxDim)

NextLayered ==
    \E x \in LayeredXs, y \in LayeredYs, octaves \in LayeredOctaves :
        \E persistence \in LayeredPersistences, scale \in LayeredScales :
            \E seed \in LayeredSeeds :
                LayeredCall(x, y, octaves, persistence, scale, seed)

SpecLayered == InitLayered /\ [][NextLayered]_vars

---------------------------------------------------------------------------
(* Grad called directly                                                    *)

\* hashes -MaxHash .. MaxHash: every residue modulo 16 from negative and
\* from non-negative hashes; offsets with eight distinct non-zero products
MaxHash == 33
GradHashes == (-MaxHash) .. MaxHash
GradXs == {Dec(3, 10), Dec(1, 2)}
GradYs == {Dec(-7, 10), Dec(2, 10)}

GradCall(hash, x, y) ==
    /\ gradCall' = [made |-> TRUE, hash |-> hash, x |-> x, y |-> y,
                    u |-> GradTerms(hash, x, y).u, v |-> GradTerms(hash, x, y).v,
                    value |-> Grad(hash, x, y)]
    /\ UNCHANGED <<noiseVars, callVars, layered, island, playerCall, worldVars,
                   biomeVars, gameVars>>

InitGrad ==
    NoiseInit /\ CallInit /\ GameIdle /\ BiomeIdle /\ WorldInit(MaxDim, MaxDim)

NextGrad == \E hash \in GradHashes, x \in GradXs, y \in GradYs : GradCall(hash, x, y)

SpecGrad == InitGrad /\ [][NextGrad]_vars

---------------------------------------------------------------------------
(* The island factor of the raw field computed for single cells            *)

\* grid sizes followed, every cell of each
IslandDim == 8

IslandCall(w, h, x, y) ==
    /\ ~island.made
    /\ island' = [made |-> TRUE, x |-> x, y |-> y, w |-> w, h |-> h,
                  distance |-> DistanceFromCenter(Dec(x, w), Dec(y, h)),
                  factor |-> IslandFactor(Dec(x, w), Dec(y, h)),
                  multiplier |-> Attenuation(Dec(x, w), Dec(y, h))]
    /\ UNCHANGED <<noiseVars, callVars, gradCall, layered, playerCall, worldVars,
                   biomeVars, gameVars>>

InitIsland ==
    /\ NoiseInit /\ CallInit /\ GameIdle /\ BiomeIdle
    /\ WorldInit(IslandDim, IslandDim)

NextIsland ==
    \E w \in 1 .. IslandDim, h \in 1 .. IslandDim :
        \E x \in 0 .. (w - 1), y \in 0 .. (h - 1) : IslandCall(w, h, x, y)

SpecIsland == InitIsland /\ [][NextIsland]_vars

---------------------------------------------------------------------------
(* DetermineBiome applied to bounded inputs                                *)

\* elevations -MaxDepth .. MaxElevation in half units, and the values one
\* representable step below and a hundredth above every threshold
MaxElevation == 75
MaxDepth == 5
Thresholds == {WATER_LEVEL - 5 * SCALE, WATER_LEVEL, BEACH_LEVEL, PLAINS_LEVEL,
               HILLS_LEVEL, MOUNTAIN_LEVEL}
BiomeElevations ==
    {(k * SCALE) \div 2 : k \in (-2 * MaxDepth) .. (2 * MaxElevation)}
    \cup {t - 1 : t \in Thresholds} \cup {t + Dec(1, 100) : t \in Thresholds}

\* moistures -0.2 .. MaxMoistureTenths/10 in tenths, and the values one step
\* below every moisture threshold
MaxMoistureTenths == 10
BiomeMoistures ==
    {Dec(k, 10) : k \in (-2) .. MaxMoistureTenths}
    \cup {Dec(3, 10) - 1, Dec(4, 10) - 1, Dec(6, 10) - 1}

InitBiome ==
    /\ NoiseInit /\ CallInit /\ GameIdle /\ WorldInit(MaxDim, MaxDim)
    /\ elevation \in BiomeElevations
    /\ moisture \in BiomeMoistures
    /\ biome = "none"

Classify ==
    /\ biome = "none"
    /\ biome' = DetermineBiome(elevation, moisture)
    /\ UNCHANGED <<elevation, moisture>>
    /\ UNCHANGED <<noiseVars, callVars, unitVars, worldVars, gameVars>>

NextBiome == Classify

SpecBiome == InitBiome /\ [][NextBiome]_vars


---------------------------------------------------------------------------
(* The passes after the first loop, on any field the first loop may leave   *)

\* grid sizes followed from a given field
TerrainDim == 3

\* values a cell may hold after the first loop: elevations on both sides of
\* WATER_LEVEL, WATER_LEVEL + 5 and the lake level; moistures around 0.7;
\* river values around both ends of the band below RIVER_THRESHOLD, and
\* the first one above it
CellElevations == << -3 * SCALE, Dec(195, 10), 20 * SCALE, 22 * SCALE,
                     Dec(249, 10), 25 * SCALE, 30 * SCALE, 60 * SCALE,
                     80 * SCALE >>
CellMoistures == << Dec(3, 10), Dec(7, 10), Dec(8, 10) >>
CellRivers == << Dec(5, 10), Dec(72, 100), Dec(8, 10), Dec(82, 100),
                 Dec(85, 100), SCALE, Dec(82, 100) + 1 >>
CellCount == Len(CellElevations) * Len(CellMoistures) * Len(CellRivers)

CellValue(i) ==
    [elevation |-> CellElevations[(i % Len(CellElevations)) + 1],
     moisture |-> CellMoistures[((i \div Len(CellElevations)) % Len(CellMoistures)) + 1],
     riverValue |-> CellRivers[((i \div (Len(CellElevations) * Len(CellMoistures)))
                                  % Len(CellRivers)) + 1],
     biome |-> "DEEP_WATER"]

\* the field whose cell number k (row by row) holds value offset + k * stride
Field(w, h, offset, stride) ==
    [yy \in 0 .. (h - 1) |-> [xx \in 0 .. (w - 1) |->
        CellValue((offset + (yy * w + xx) * stride) % CellCount)]]

FieldStrides == {1, 7, 25}

\* the seed of the last PerlinNoise call of the first loop: the last octave
\* of the river noise
LastNoiseSeed == 4 + (RIVER_OCTAVES - 1)

\* PerlinNoise calls of one cell of the first loop: the octaves of its five
\* LayeredNoise calls
PerlinCallsPerCell == CONTINENT_OCTAVES + TERRAIN_OCTAVES + 4 + 4 + RIVER_OCTAVES

\* GenerateWorld about to enter its second loop
InitTerrain ==
    /\ CallInit /\ GameIdle /\ BiomeIdle
    /\ p = SeededTable(LastNoiseSeed) /\ lastSeed = LastNoiseSeed
    /\ \E w \in 1 .. TerrainDim, h \in 1 .. TerrainDim :
        /\ width = w /\ height = h
        /\ \E offset \in 0 .. (CellCount - 1), stride \in FieldStrides :
            terrainData = Field(w, h, offset, stride)
        /\ world = Grid(w, h, ZeroTile)
    /\ rawData = terrainData
    /\ pc = "carve" /\ cx = 0 /\ cy = 0
    /\ smoothedElevation = <<>>
    /\ outcome = "running" /\ runs = 0
    /\ noiseCalls = PerlinCallsPerCell * width * height
    /\ carvedData = <<>> /\ firstGrid = <<>>

NextTerrain ==
    \/ Pass2Cell \/ Pass2End \/ Pass3Cell \/ Pass3End
    \/ CommitCell \/ CommitEnd \/ Pass4Cell \/ Return

SpecTerrain == InitTerrain /\ [][NextTerrain]_vars

---------------------------------------------------------------------------
(* The game loop of main, over any grid GenerateWorld may have returned    *)

\* grid sizes followed in the game loop
GameDim == 3
GameOffsets == {0, 30}

\* the grid the last loop of GenerateWorld writes from the terrain data
\* field when variation(gen) yields the draws jitter
FinalGrid(field, w, h, jitter) ==
    [yy \in 0 .. (h - 1) |-> [xx \in 0 .. (w - 1) |->
        LET d == [field[yy][xx] EXCEPT !.biome =
                      DetermineBiome(field[yy][xx].elevation, field[yy][xx].moisture)]
            j == IF <<xx, yy>> \in DOMAIN jitter THEN jitter[<<xx, yy>>]
                 ELSE <<0, 0, 0>>
        IN  FinalTile(xx, yy, d,
                TileColor(xx, yy, w, h, CreateBiomeProperties(d.biome).baseColor,
                          j[1], j[2], j[3]))]]

\* main about to enter "while (running)": the world generated, the player at
\* its fixed start, the camera at the origin, debug mode on
InitGame ==
    /\ CallInit /\ BiomeIdle
    /\ p = SeededTable(LastNoiseSeed) /\ lastSeed = LastNoiseSeed
    /\ \E w \in 1 .. GameDim, h \in 1 .. GameDim :
        /\ width = w /\ height = h /\ cx = 0 /\ cy = h
        /\ \E offset \in GameOffsets, jitter \in GridJitters(w, h) :
            world = FinalGrid(Field(w, h, offset, 7), w, h, jitter)
        /\ noiseCalls = PerlinCallsPerCell * w * h
    /\ firstGrid = Shape(world)
    /\ terrainData = <<>> /\ smoothedElevation = <<>>
    /\ rawData = <<>> /\ carvedData = <<>>
    /\ pc = "events" /\ outcome = "returned" /\ runs = 1
    /\ player = [x |-> 10 * SCALE, y |-> 10 * SCALE, elevation |-> 30 * SCALE,
                 velocityZ |-> 0, isJumping |-> FALSE]
    /\ camera = [x |-> 0, y |-> 0]
    /\ running = TRUE /\ debugMode = TRUE
    /\ frame = <<>> /\ frames = 0 /\ polled = 0

NextGame == GameLoop

SpecGame == InitGame /\ [][NextGame]_vars

---------------------------------------------------------------------------
(* The player over many iterations of the game loop: the key events of an  *)
(* iteration, its HandlePlayerMovement call and camera update, its frame   *)

\* the grid width followed, and the cap on the calls made in a row without
\* a jump
PlayerDim == 4
MaxWalk == 1

\* the SDL_KEYDOWN events polled in one iteration, in order, and the frame
\* times (seconds) followed
PlayerEvents == {<<>>, <<"LEFT", "LEFT", "DOWN">>, <<"RIGHT", "RIGHT", "UP">>,
                 <<"r">>}
PlayerDeltaTimes == {Dec(4, 100)}

\* the player after the SDL_KEYDOWN branches of the events from number k on
RECURSIVE KeysDown(_, _, _)
KeysDown(pl, keys, k) ==
    IF k > Len(keys) THEN pl ELSE KeysDown(KeyDown(pl, keys[k]), keys, k + 1)

\* "while (SDL_PollEvent(&event))" until the queue is empty
PlayerPoll(keys) ==
    /\ pc = "events" /\ running
    /\ player' = KeysDown(player, keys, 1)
    /\ pc' = "move"
    /\ UNCHANGED <<noiseCalls, width, height, cx, cy, terrainData,
                   smoothedElevation, world, outcome, runs, rawData, carvedData,
                   firstGrid>>
    /\ UNCHANGED <<camera, running, debugMode, frame, frames, polled>>
    /\ UNCHANGED <<noiseVars, callVars, unitVars, biomeVars>>

\* the call made without a jump under way or started
Walks(pl, keystate) == ~pl.isJumping /\ ~StartsJump(pl, keystate)

\* HandlePlayerMovement(player, keystate, deltaTime, world),
\* camera.update(player) and SDL_RenderClear; the render loop follows
PlayerMove(keystate, deltaTime) ==
    /\ pc = "move"
    /\ Walks(player, keystate) => playerCall.walked < MaxWalk
    /\ player' = HandlePlayerMovement(player, keystate, deltaTime, world,
                                      width, height)
    /\ playerCall' = [made |-> TRUE,
                      walked |-> IF Walks(player, keystate)
                                 THEN playerCall.walked + 1 ELSE 0]
    /\ camera' = CameraUpdate(player')
    /\ frame' = <<>>
    /\ pc' = "render"
    /\ UNCHANGED <<noiseCalls, width, height, cx, cy, terrainData,
                   smoothedElevation, world, outcome, runs, rawData, carvedData,
                   firstGrid>>
    /\ UNCHANGED <<running, debugMode, frames, polled>>
    /\ UNCHANGED <<noiseVars, callVars, gradCall, layered, island, biomeVars>>

\* main about to enter "while (running)" with a world of PlayerDim by 3
\* tiles of the elevations 20, 25 and 80: its one row inside the border is
\* the row WORLD_HEIGHT / 2 of the debug pattern, so no colour of it is drawn
\* at random
InitPlayer ==
    /\ CallInit /\ BiomeIdle
    /\ p = SeededTable(LastNoiseSeed) /\ lastSeed = LastNoiseSeed
    /\ width = PlayerDim /\ height = 3 /\ cx = 0 /\ cy = 3
    /\ \E jitter \in GridJitters(PlayerDim, 3) :
        world = FinalGrid(Field(PlayerDim, 3, 2, 3), PlayerDim, 3, jitter)
    /\ noiseCalls = PerlinCallsPerCell * PlayerDim * 3
    /\ firstGrid = Shape(world)
    /\ terrainData = <<>> /\ smoothedElevation = <<>>
    /\ rawData = <<>> /\ carvedData = <<>>
    /\ pc = "events" /\ outcome = "returned" /\ runs = 1
    /\ player = [x |-> 10 * SCALE, y |-> 10 * SCALE, elevation |-> 30 * SCALE,
                 velocityZ |-> 0, isJumping |-> FALSE]
    /\ camera = [x |-> 0, y |-> 0]
    /\ running = TRUE /\ debugMode = TRUE
    /\ frame = <<>> /\ frames = 0 /\ polled = 0

NextPlayer ==
    \/ \E keys \in PlayerEvents : PlayerPoll(keys)
    \/ \E keystate \in KeyStates, deltaTime \in PlayerDeltaTimes :
        PlayerMove(keystate, deltaTime)
    \/ RenderFrame

SpecPlayer == InitPlayer /\ [][NextPlayer]_vars

\* HandlePlayerMovement keeps being called
SpecPlayerCalled == SpecPlayer /\ WF_vars(NextPlayer)

---------------------------------------------------------------------------
(* Claims                                                                  *)

\* the classification table of the specification, band by band
RefBiome(e, m) ==
    CASE e < WATER_LEVEL - 5 * SCALE -> "DEEP_WATER"
      [] e >= WATER_LEVEL - 5 * SCALE /\ e < WATER_LEVEL -> "SHALLOW_WATER"
      [] e >= WATER_LEVEL /\ e < BEACH_LEVEL -> "BEACH"
      [] e >= BEACH_LEVEL /\ e < PLAINS_LEVEL /\ m >= Dec(6, 10) -> "FOREST"
      [] e >= BEACH_LEVEL /\ e < PLAINS_LEVEL /\ m < Dec(6, 10) -> "PLAINS"
      [] e >= PLAINS_LEVEL /\ e < HILLS_LEVEL /\ m >= Dec(4, 10) -> "FOREST"
      [] e >= PLAINS_LEVEL /\ e < HILLS_LEVEL /\ m < Dec(4, 10) -> "HILLS"
      [] e >= HILLS_LEVEL /\ e < MOUNTAIN_LEVEL -> "MOUNTAINS"
      [] e >= MOUNTAIN_LEVEL -> "SNOW_CAPS"

\* C1: the biome returned by DetermineBiome is the one of the reference
\* table for every (elevation, moisture); WATER_LEVEL-6 is DeepWater and
\* anything above MOUNTAIN_LEVEL is SnowCaps; outside the two bands
\* [BEACH_LEVEL, PLAINS_LEVEL) and [PLAINS_LEVEL, HILLS_LEVEL) every
\* moisture gives the same biome.
C1_BiomeTable ==
    biome # "none" =>
        /\ biome = RefBiome(elevation, moisture)
        /\ (elevation = WATER_LEVEL - 6 * SCALE => biome = "DEEP_WATER")
        /\ (elevation > MOUNTAIN_LEVEL => biome = "SNOW_CAPS")
        /\ (elevation < BEACH_LEVEL \/ elevation >= HILLS_LEVEL =>
                \A m2 \in BiomeMoistures : DetermineBiome(elevation, m2) = biome)

\* a forested hill at the moisture threshold 0.4 has been classified
C1_Witness ==
    /\ biome = "FOREST"
    /\ elevation >= PLAINS_LEVEL /\ elevation < HILLS_LEVEL
    /\ moisture = Dec(4, 10)

\* the cells of the grid being generated
Cells == (0 .. (width - 1)) \X (0 .. (height - 1))

\* C2: PerlinNoise is a pure function of (x, y, seed): whatever calls came
\* before, the first call of the process and seed = -1 included, a call with
\* the arguments of an earlier call returns the value the earlier call
\* returned.
C2_PerlinPure ==
    (call.made /\ ref.args.made /\ call = ref.args) => result = ref.value

\* C3: two GenerateWorld calls of one process return grids that agree on x,
\* y, elevation and walkable of every tile, whatever the first call left in
\* the static permutation cache.
C3_Deterministic ==
    (pc = "idle" /\ runs >= 2) => Shape(world) = firstGrid

\* a second call has returned, and it started from the cache the first left
C3_Witness ==
    /\ pc = "idle" /\ runs = 2
    /\ lastSeed = LastNoiseSeed
    /\ width > 1 /\ height > 1
    /\ \E c \in Cells : world[c[2]][c[1]].elevation # 0

\* C4: once the second loop has run over a cell, its elevation is at most
\* the elevation the first loop gave it, and its moisture and riverValue are
\* the ones of the first loop.
C4_MonotoneCarving ==
    /\ pc = "carve" =>
          \A c \in Cells :
              /\ terrainData[c[2]][c[1]].elevation <= rawData[c[2]][c[1]].elevation
              /\ terrainData[c[2]][c[1]].moisture = rawData[c[2]][c[1]].moisture
              /\ terrainData[c[2]][c[1]].riverValue = rawData[c[2]][c[1]].riverValue
    /\ carvedData # <<>> =>
          \A c \in Cells :
              /\ carvedData[c[2]][c[1]].elevation <= rawData[c[2]][c[1]].elevation
              /\ carvedData[c[2]][c[1]].moisture = rawData[c[2]][c[1]].moisture
              /\ carvedData[c[2]][c[1]].riverValue = rawData[c[2]][c[1]].riverValue

\* the second loop has ended with a river cell carved below its first
\* elevation, and with a cell it left alone
C4_Witness ==
    /\ pc = "smooth"
    /\ \E c \in Cells :
        /\ rawData[c[2]][c[1]].riverValue > RIVER_THRESHOLD
        /\ carvedData[c[2]][c[1]].elevation < rawData[c[2]][c[1]].elevation
    /\ \E c \in Cells :
        carvedData[c[2]][c[1]].elevation = rawData[c[2]][c[1]].elevation

\* the cells of the 3 x 3 block around c that lie in the grid
Neighbourhood(c) ==
    {n \in Cells : n[1] - c[1] \in {-1, 0, 1} /\ n[2] - c[2] \in {-1, 0, 1}}

RECURSIVE SumElevation(_, _)
SumElevation(grid, cells) ==
    IF cells = {} THEN 0
    ELSE LET n == CHOOSE n \in cells : TRUE
         IN  grid[n[2]][n[1]].elevation + SumElevation(grid, cells \ {n})

\* the elevation a cell has after the third loop, from the grid before it
Smoothed(grid, c) ==
    LET own == grid[c[2]][c[1]].elevation
        mean == SumElevation(grid, Neighbourhood(c)) \div Cardinality(Neighbourhood(c))
    IN  IF own <= WATER_LEVEL THEN own
        ELSE FMul(mean, Dec(7, 10)) + FMul(own, Dec(3, 10))

\* C5: a cell whose elevation before the third loop is <= WATER_LEVEL has
\* the same elevation after it, whatever its neighbours hold; a cell above
\* WATER_LEVEL gets 0.7 * the mean of its neighbourhood + 0.3 * its own
\* elevation, all read from the grid before the loop.
C5_SmoothingInvariance ==
    /\ pc = "commit" =>
          \A c \in Cells :
              /\ smoothedElevation[c[2]][c[1]] = Smoothed(carvedData, c)
              /\ carvedData[c[2]][c[1]].elevation <= WATER_LEVEL =>
                     smoothedElevation[c[2]][c[1]] = carvedData[c[2]][c[1]].elevation
    /\ pc = "finalize" =>
          \A c \in Cells :
              /\ terrainData[c[2]][c[1]].elevation = Smoothed(carvedData, c)
              /\ carvedData[c[2]][c[1]].elevation <= WATER_LEVEL =>
                     terrainData[c[2]][c[1]].elevation = carvedData[c[2]][c[1]].elevation

\* the third loop has run over a grid with a cell exactly at WATER_LEVEL
\* next to higher ground, and with a land cell whose elevation it changed
C5_Witness ==
    /\ pc = "finalize"
    /\ \E c \in Cells :
        /\ carvedData[c[2]][c[1]].elevation = WATER_LEVEL
        /\ \E n \in Neighbourhood(c) : carvedData[n[2]][n[1]].elevation > WATER_LEVEL
    /\ \E c \in Cells :
        /\ carvedData[c[2]][c[1]].elevation > WATER_LEVEL
        /\ terrainData[c[2]][c[1]].elevation # carvedData[c[2]][c[1]].elevation

\* C6: the returned grid has height rows of width tiles, the tile at
\* world[y][x] has x and y in its fields, and every tile has its elevation,
\* colour and walkable written from the cell's terrain data.
C6_GridComplete ==
    outcome = "returned" =>
        /\ DOMAIN world = 0 .. (height - 1)
        /\ \A yy \in DOMAIN world : DOMAIN world[yy] = 0 .. (width - 1)
        /\ \A c \in Cells :
            LET tile == world[c[2]][c[1]]
                data == terrainData[c[2]][c[1]]
            IN  /\ tile.x = c[1] /\ tile.y = c[2]
                /\ tile.elevation = TruncToInt(data.elevation)
                /\ tile.walkable = CreateBiomeProperties(data.biome).walkable
                /\ tile.color.a = 255
        /\ Cardinality({<<world[c[2]][c[1]].x, world[c[2]][c[1]].y>> : c \in Cells})
               = width * height

\* a grid that is not square has been returned, with a tile below sea level
C6_Witness ==
    /\ outcome = "returned"
    /\ width > height /\ height > 1
    /\ \E c \in Cells : world[c[2]][c[1]].elevation < 0

\* the three clamps applied to d in the order given
ApplyClamp(name, d) ==
    CASE name = "river" -> RiverClamp(d)
      [] name = "tributary" -> TributaryClamp(d)
      [] name = "lake" -> LakeClamp(d)

ApplyOrder(order, d) ==
    ApplyClamp(order[3], ApplyClamp(order[2], ApplyClamp(order[1], d)))

ClampOrders ==
    {o \in [1 .. 3 -> {"river", "tributary", "lake"}] :
        \A i, j \in 1 .. 3 : i # j => o[i] # o[j]}

\* C8 as claimed: the three clamps applied in any order give the elevation
\* the second loop gives.
C8_AnyOrder ==
    carvedData # <<>> =>
        \A c \in Cells : \A o \in ClampOrders :
            ApplyOrder(o, rawData[c[2]][c[1]]).elevation
                = carvedData[c[2]][c[1]].elevation

\* C8: the three clamps applied in an order that ends with the lake clamp
\* give the elevation the second loop gives; applied in any other order
\* they give that elevation or a higher one.
C8_LakeLast ==
    carvedData # <<>> =>
        \A c \in Cells : \A o \in ClampOrders :
            /\ o[3] = "lake" =>
                   ApplyOrder(o, rawData[c[2]][c[1]]).elevation
                       = carvedData[c[2]][c[1]].elevation
            /\ ApplyOrder(o, rawData[c[2]][c[1]]).elevation
                   >= carvedData[c[2]][c[1]].elevation

\* the second loop has carved a moist river cell that starts at or above
\* WATER_LEVEL + 5: the lake clamp acts only once the river clamp has
C8_Witness ==
    /\ pc = "smooth"
    /\ \E c \in Cells :
        /\ rawData[c[2]][c[1]].elevation >= WATER_LEVEL + 5 * SCALE
        /\ rawData[c[2]][c[1]].moisture > Dec(7, 10)
        /\ rawData[c[2]][c[1]].riverValue > RIVER_THRESHOLD
        /\ carvedData[c[2]][c[1]].elevation = WATER_LEVEL - 2 * SCALE

\* C9: every channel of a tile's colour is within 5 of the channel of the
\* base colour of the tile's biome, and alpha is 255, wherever the tile is.
C9_ColourNearBase ==
    outcome = "returned" =>
        \A c \in Cells :
            LET color == world[c[2]][c[1]].color
                base == CreateBiomeProperties(terrainData[c[2]][c[1]].biome).baseColor
            IN  /\ Abs(color.r - base.r) <= 5
                /\ Abs(color.g - base.g) <= 5
                /\ Abs(color.b - base.b) <= 5
                /\ color.a = 255

---------------------------------------------------------------------------
(* LayeredNoise: the fallback value                                        *)

\* maxValue and total of a LayeredNoise call, recomputed from its octave log
RECURSIVE SumAmplitude(_)
SumAmplitude(calls) ==
    IF calls = <<>> THEN 0
    ELSE calls[1].amplitude + SumAmplitude(Tail(calls))

RECURSIVE WeightedSum(_)
WeightedSum(calls) ==
    IF calls = <<>> THEN 0
    ELSE FMul(calls[1].value, calls[1].amplitude) + WeightedSum(Tail(calls))

\* C11 as stated: LayeredNoise returns 0 whenever the accumulated maxValue is
\* not positive, in particular for octaves <= 0, where no PerlinNoise call is
\* made; for every octaves >= 1 it returns total / maxValue
C11_QuotientFromOneOctave ==
    layered.made =>
        /\ SumAmplitude(layered.calls) <= 0 => layered.value = 0
        /\ layered.octaves <= 0 =>
                layered.calls = <<>> /\ SumAmplitude(layered.calls) = 0
        /\ layered.octaves >= 1 =>
                /\ SumAmplitude(layered.calls) # 0
                /\ layered.value =
                     IF SumAmplitude(layered.calls) > 0
                     THEN FDiv(WeightedSum(layered.calls), SumAmplitude(layered.calls))
                     ELSE FDiv(-WeightedSum(layered.calls), -SumAmplitude(layered.calls))

\* C11, amended: LayeredNoise returns 0 whenever the accumulated maxValue is
\* not positive, in particular for octaves <= 0, where no PerlinNoise call is
\* made; for octaves >= 1 with a positive maxValue it returns total / maxValue
C11_QuotientWhenPositive ==
    layered.made =>
        /\ SumAmplitude(layered.calls) <= 0 => layered.value = 0
        /\ layered.octaves <= 0 =>
                layered.calls = <<>> /\ SumAmplitude(layered.calls) = 0
        /\ (layered.octaves >= 1 /\ SumAmplitude(layered.calls) > 0) =>
                layered.value =
                    FDiv(WeightedSum(layered.calls), SumAmplitude(layered.calls))

\* a call of two octaves or more whose weights sum to a negative maxValue
\* while the total is not 0, and which returned 0
C11_Witness ==
    /\ layered.made /\ layered.octaves >= 2
    /\ SumAmplitude(layered.calls) < 0
    /\ WeightedSum(layered.calls) # 0
    /\ layered.value = 0

---------------------------------------------------------------------------
(* GenerateWorld: the buffer of the smoothing pass                         *)

\* the cells a row-by-row loop has left behind when it stands at (cx, cy)
Visited == {c \in Cells : c[2] < cy \/ (c[2] = cy /\ c[1] < cx)}

\* C12: while the third loop runs, the terrain grid still holds the
\* elevations the second loop left, and every value already in the buffer is
\* computed from those elevations alone (the cell's own and its clamped 3x3
\* neighbours'), so it does not depend on which cells were visited before;
\* the buffer is copied into the terrain grid only after it is complete.
C12_DoubleBuffered ==
    /\ pc = "smooth" =>
          /\ terrainData = carvedData
          /\ \A c \in Visited :
                smoothedElevation[c[2]][c[1]] = Smoothed(carvedData, c)
    /\ pc = "commit" =>
          \A c \in Cells :
              /\ smoothedElevation[c[2]][c[1]] = Smoothed(carvedData, c)
              /\ terrainData[c[2]][c[1]].elevation =
                     IF c \in Visited THEN smoothedElevation[c[2]][c[1]]
                     ELSE carvedData[c[2]][c[1]].elevation

\* the third loop stands at a land cell with a neighbour it has already
\* smoothed to another elevation than the second loop left there
C12_Witness ==
    /\ pc = "smooth" /\ <<cx, cy>> \in Cells
    /\ carvedData[cy][cx].elevation > WATER_LEVEL
    /\ \E n \in Neighbourhood(<<cx, cy>>) \cap Visited :
          smoothedElevation[n[2]][n[1]] # carvedData[n[2]][n[1]].elevation

---------------------------------------------------------------------------
(* GenerateWorld: the order of the passes                                  *)

\* the loops of GenerateWorld in program order, from call to return
PassOrder == {<<"idle", "raw">>, <<"raw", "carve">>, <<"carve", "smooth">>,
              <<"smooth", "commit">>, <<"commit", "finalize">>,
              <<"finalize", "idle">>}

\* what each loop finds and leaves: cells ahead of a loop are as the loop
\* before left them, for every cell
PassState ==
    /\ pc = "raw" =>
          /\ \A c \in Cells \ Visited : terrainData[c[2]][c[1]] = ZeroData
          /\ noiseCalls = PerlinCallsPerCell * Cardinality(Visited)
          /\ smoothedElevation = <<>> /\ world = Grid(width, height, ZeroTile)
    /\ pc \in {"carve", "smooth", "commit", "finalize"} =>
          noiseCalls = PerlinCallsPerCell * width * height
    /\ pc = "carve" =>
          /\ \A c \in Cells :
                terrainData[c[2]][c[1]] =
                    IF c \in Visited THEN CarveCell(rawData[c[2]][c[1]])
                    ELSE rawData[c[2]][c[1]]
          /\ smoothedElevation = <<>> /\ world = Grid(width, height, ZeroTile)
    /\ pc = "smooth" =>
          /\ \A c \in Cells :
                terrainData[c[2]][c[1]] = CarveCell(rawData[c[2]][c[1]])
          /\ world = Grid(width, height, ZeroTile)
    /\ pc = "commit" => world = Grid(width, height, ZeroTile)
    /\ pc = "finalize" =>
          \A c \in Cells :
              /\ terrainData[c[2]][c[1]].elevation = smoothedElevation[c[2]][c[1]]
              /\ c \notin Visited => world[c[2]][c[1]] = ZeroTile

\* a step moves from one loop to the next in program order only, and a step
\* outside the first loop makes no PerlinNoise call
PassStep ==
    /\ pc' # pc => <<pc, pc'>> \in PassOrder
    /\ pc # "raw" =>
          /\ p' = p /\ lastSeed' = lastSeed
          /\ noiseCalls' = noiseCalls \/ (pc = "idle" /\ noiseCalls' = 0)

\* C13: in every GenerateWorld call the first loop has written every cell
\* before the second touches any, the second has finished every cell before
\* the third reads any, the third is committed for every cell before the
\* finalization starts; the loops run once each in program order, and no
\* PerlinNoise call is made after the first loop has ended.
C13_PassOrder == []PassState /\ [][PassStep]_vars

\* a second GenerateWorld call has finished its last loop over several cells
C13_Witness ==
    /\ pc = "finalize" /\ cy >= height /\ runs = 1
    /\ width * height >= 2
    /\ noiseCalls = PerlinCallsPerCell * width * height

---------------------------------------------------------------------------
(* The grid in the game loop                                               *)

\* the grid with every walkable flag inverted
FlipWalkable(grid) ==
    [yy \in DOMAIN grid |-> [xx \in DOMAIN grid[yy] |->
        [grid[yy][xx] EXCEPT !.walkable = ~@]]]

\* what the movement and the render steps compute from the grid depends on
\* the x, y, elevation and colour of its tiles only
ReadsShapeAndColour ==
    /\ pc = "move" =>
          \A keystate \in KeyStates, deltaTime \in DeltaTimes :
              HandlePlayerMovement(player, keystate, deltaTime, world, width, height)
              = HandlePlayerMovement(player, keystate, deltaTime,
                                     FlipWalkable(world), width, height)
    /\ pc = "render" =>
          RenderTiles(world, width, height, camera, player, 0)
          = RenderTiles(FlipWalkable(world), width, height, camera, player, 0)

\* a step taken inside the game loop leaves the grid as it is
GridKept == pc \in {"events", "move", "camera", "render"} => world' = world

\* C14: once GenerateWorld has returned, no step of the game loop (polling a
\* key event, HandlePlayerMovement, Camera::update, the render loop with
\* WorldToScreen and RenderTile) changes any field of any tile; the steps
\* only read the position, the elevation and the colour of tiles.
C14_GridImmutable ==
    /\ [][GridKept]_vars
    /\ []ReadsShapeAndColour

\* the loop has drawn tiles of the grid in a finished iteration and the
\* player has been moved onto the grid and is in a jump
C14_Witness ==
    /\ pc = "events" /\ frames >= 1
    /\ Len(frame) >= 1
    /\ player.isJumping /\ player.x < 10 * SCALE

---------------------------------------------------------------------------
(* The biome lookup of the last loop                                       *)

\* C15: the map built by CreateBiomeProperties has an entry for each of the
\* 8 BiomeType values, so the lookup biomeProps.at(biome) of the last loop
\* succeeds for every biome DetermineBiome returns: every finalized cell has
\* a biome with an entry, its tile carries that entry's walkable flag, and
\* GenerateWorld never ends in an out-of-range error.
C15_LookupTotal ==
    /\ BiomeType \subseteq BiomePropertyKeys
    /\ outcome # "out_of_range"
    /\ pc = "finalize" =>
          \A c \in Visited :
              /\ terrainData[c[2]][c[1]].biome \in BiomePropertyKeys
              /\ terrainData[c[2]][c[1]].biome =
                     DetermineBiome(terrainData[c[2]][c[1]].elevation,
                                    terrainData[c[2]][c[1]].moisture)
              /\ world[c[2]][c[1]].walkable =
                     CreateBiomeProperties(terrainData[c[2]][c[1]].biome).walkable

\* the last loop has looked up and finalized a cell of the last biome of
\* the enumeration
C15_Witness ==
    /\ pc = "finalize"
    /\ \E c \in Visited :
          /\ terrainData[c[2]][c[1]].biome = "SNOW_CAPS"
          /\ world[c[2]][c[1]].elevation >= 70
          /\ ~world[c[2]][c[1]].walkable

---------------------------------------------------------------------------
(* PerlinNoise: the table and the indices it is read at                    *)

\* tab has 512 entries, its first 256 are a permutation of 0 .. 255 and its
\* second 256 repeat them
IsDoubledPermutation(tab) ==
    /\ Len(tab) = 512
    /\ {tab[i] : i \in 1 .. 256} = 0 .. 255
    /\ \A i \in 1 .. 256 : tab[i + 256] = tab[i]

\* C16: the built-in table is a permutation of 0 .. 255, and at every table
\* lookup of a PerlinNoise call the table p has length 512, its first half
\* is a permutation of 0 .. 255 and its second half repeats the first.
C16_TableShape ==
    /\ Len(permutation) = 256
    /\ {permutation[i] : i \in 1 .. 256} = 0 .. 255
    /\ call.made => IsDoubledPermutation(p)

\* C17: every index a PerlinNoise call reads p at (X, X+1, A, A+1, B, B+1,
\* AA, AB, BA, BB) lies in 0 .. 511, with X and Y in 0 .. 255, whatever the
\* arguments and whatever table the call reads.
C17_ReadsInTable ==
    call.made =>
        /\ lookups.X \in 0 .. 255 /\ lookups.Y \in 0 .. 255
        /\ Len(lookups.reads) = 10
        /\ \A i \in 1 .. 10 : lookups.reads[i] \in 0 .. 511

\* a call in the last lattice cell of both axes, which read entry 256 and an
\* entry beyond 400 of a shuffled table
C17_Witness ==
    /\ call.made /\ lookups.X = 255 /\ lookups.Y = 255
    /\ IsDoubledPermutation(p)
    /\ \E i \in 1 .. 10 : lookups.reads[i] = 256
    /\ \E i \in 1 .. 10 : lookups.reads[i] > 400

\* C19: for every lattice index n = floor(x), negative or not, the X of a
\* PerlinNoise call is the mathematical n mod 256, a value in 0 .. 255; the
\* same holds for Y and floor(y).
C19_Wraparound ==
    call.made =>
        /\ lookups.X = Floor(call.x) % 256 /\ lookups.X \in 0 .. 255
        /\ lookups.Y = Floor(call.y) % 256 /\ lookups.Y \in 0 .. 255

\* a call whose x lies below -256 and whose y is a negative integer
C19_Witness ==
    /\ call.made
    /\ Floor(call.x) < -256 /\ lookups.X = Floor(call.x) + 512
    /\ Floor(call.y) = -1 /\ lookups.Y = 255

---------------------------------------------------------------------------
(* Grad: the gradient directions                                           *)

Directions == {<<1, 0>>, <<-1, 0>>, <<0, 1>>, <<0, -1>>,
               <<1, 1>>, <<1, -1>>, <<-1, 1>>, <<-1, -1>>}

Dot(d, x, y) == d[1] * x + d[2] * y

\* the direction of each residue of the hash modulo 16, residues 0 .. 15
ResidueDirection ==
    << <<1, 1>>, <<-1, 1>>, <<1, -1>>, <<-1, -1>>,
       <<1, 0>>, <<-1, 0>>, <<1, 0>>, <<-1, 0>>,
       <<0, 1>>, <<0, -1>>, <<0, 1>>, <<0, -1>>,
       <<1, 1>>, <<0, -1>>, <<-1, 1>>, <<0, -1>> >>

\* C18: Grad depends on the hash through its residue modulo 16 only, for
\* negative hashes too; for each residue it is the dot product of (dx, dy)
\* with exactly one of the 8 directions (+-1,0), (0,+-1), (+-1,+-1); the u
\* term is never 0, the v term is 0 for the residues 13 and 15, and no
\* residue makes the result 0 for offsets that are not 0.
C18_GradDirections ==
    gradCall.made =>
        LET h == gradCall.hash % 16
            d == ResidueDirection[h + 1]
        IN  /\ gradCall.value = Grad(h, gradCall.x, gradCall.y)
            /\ gradCall.value = Grad(gradCall.hash + 16, gradCall.x, gradCall.y)
            /\ d \in Directions
            /\ gradCall.value = Dot(d, gradCall.x, gradCall.y)
            /\ {e \in Directions : Dot(e, gradCall.x, gradCall.y) = gradCall.value}
                   = {d}
            /\ gradCall.u \in {gradCall.x, -gradCall.x, gradCall.y, -gradCall.y}
            /\ gradCall.u # 0
            /\ h \in {13, 15} => gradCall.v = 0 /\ d = <<0, -1>>
            /\ gradCall.value # 0

\* Grad called with a negative hash of residue 13
C18_Witness ==
    /\ gradCall.made /\ gradCall.hash < 0 /\ gradCall.hash % 16 = 13
    /\ gradCall.v = 0 /\ gradCall.value = -gradCall.y

---------------------------------------------------------------------------
(* LayeredNoise: the octaves                                               *)

\* persistence to the power i, as the loop multiplies it up
RECURSIVE Power(_, _)
Power(b, i) == IF i = 0 THEN SCALE ELSE FMul(Power(b, i - 1), b)

\* the i-th PerlinNoise call (i from 0) of the logged LayeredNoise call has
\* the seed, the coordinates and the weight of octave i
OctaveAsScheduled(i) ==
    LET c == layered.calls[i + 1]
    IN  /\ c.seed = layered.seed + i
        /\ c.x = FMul(layered.x, layered.scale * 2^i)
        /\ c.y = FMul(layered.y, layered.scale * 2^i)
        /\ c.amplitude = Power(layered.persistence, i)

Scheduled ==
    /\ Len(layered.calls) = layered.octaves
    /\ \A i \in 0 .. (layered.octaves - 1) : OctaveAsScheduled(i)
    /\ \A i, j \in 1 .. layered.octaves :
          i # j => layered.calls[i].seed # layered.calls[j].seed

\* every logged value in [-1, 1] and persistence >= 0 give a result in [-1, 1]
Bounded ==
    (/\ layered.persistence >= 0
     /\ \A i \in 1 .. Len(layered.calls) :
           layered.calls[i].value >= -SCALE /\ layered.calls[i].value <= SCALE)
    => (layered.value >= -SCALE /\ layered.value <= SCALE)

\* C20 as stated: for octaves = n >= 1 LayeredNoise makes exactly n
\* PerlinNoise calls, the i-th with seed seed+i, coordinates
\* (x*scale*2^i, y*scale*2^i) and weight persistence^i, and returns the
\* weighted sum of the values divided by the sum of the weights; the result
\* lies in [-1, 1] when every value does and persistence >= 0.
C20_WeightedMean ==
    (layered.made /\ layered.octaves >= 1) =>
        /\ Scheduled
        /\ SumAmplitude(layered.calls) # 0
        /\ layered.value =
              IF SumAmplitude(layered.calls) > 0
              THEN FDiv(WeightedSum(layered.calls), SumAmplitude(layered.calls))
              ELSE FDiv(-WeightedSum(layered.calls), -SumAmplitude(layered.calls))
        /\ Bounded

\* C20, amended: the same schedule of calls, seeds, coordinates and weights;
\* the result is the weighted sum divided by the sum of the weights when
\* that sum is positive, and lies in [-1, 1] when every value does and
\* persistence >= 0.
C20_WeightedMeanWhenPositive ==
    (layered.made /\ layered.octaves >= 1) =>
        /\ Scheduled
        /\ SumAmplitude(layered.calls) > 0 =>
              layered.value =
                  FDiv(WeightedSum(layered.calls), SumAmplitude(layered.calls))
        /\ Bounded

\* a call of three octaves or more with persistence 0.5 and scale 2, whose
\* third octave returned a value other than 0
C20_Witness ==
    /\ layered.made /\ layered.octaves >= 3
    /\ layered.persistence = Dec(1, 2) /\ layered.scale = 2 * SCALE
    /\ layered.calls[3].seed = layered.seed + 2
    /\ layered.calls[3].amplitude = Dec(1, 4)
    /\ layered.calls[3].value # 0
    /\ layered.value # 0

---------------------------------------------------------------------------
(* DetermineBiome: the boundaries                                          *)

\* C21: DetermineBiome returns one of the 8 kinds for every (elevation,
\* moisture), and an elevation equal to a threshold falls in the band above
\* it: WATER_LEVEL-5 is ShallowWater, WATER_LEVEL is Beach, BEACH_LEVEL is
\* Plains or Forest, PLAINS_LEVEL is Hills or Forest, HILLS_LEVEL is
\* Mountains, MOUNTAIN_LEVEL is SnowCaps; moisture 0.6 in the Plains band and
\* moisture 0.4 in the Hills band give Forest.
C21_HalfOpenBands ==
    biome # "none" =>
        /\ biome \in BiomeType
        /\ Cardinality({b \in BiomeType : b = biome}) = 1
        /\ (elevation = WATER_LEVEL - 5 * SCALE => biome = "SHALLOW_WATER")
        /\ (elevation = WATER_LEVEL => biome = "BEACH")
        /\ (elevation = BEACH_LEVEL => biome \in {"PLAINS", "FOREST"})
        /\ (elevation = PLAINS_LEVEL => biome \in {"HILLS", "FOREST"})
        /\ (elevation = HILLS_LEVEL => biome = "MOUNTAINS")
        /\ (elevation = MOUNTAIN_LEVEL => biome = "SNOW_CAPS")
        /\ (elevation >= BEACH_LEVEL /\ elevation < PLAINS_LEVEL
              /\ moisture = Dec(6, 10) => biome = "FOREST")
        /\ (elevation >= PLAINS_LEVEL /\ elevation < HILLS_LEVEL
              /\ moisture = Dec(4, 10) => biome = "FOREST")

\* the elevation MOUNTAIN_LEVEL itself has been classified as SnowCaps
C21_Witness ==
    /\ biome = "SNOW_CAPS"
    /\ elevation = MOUNTAIN_LEVEL

---------------------------------------------------------------------------
(* The island factor: the floor at the edge                                *)

\* the cell of the last island factor lies at least 0.5 from (0.5, 0.5) in
\* normalised coordinates, compared exactly on the integers
FarFromCenter ==
    LET a == (2 * island.x - island.w) * island.h
        b == (2 * island.y - island.h) * island.w
        r == island.w * island.h
    IN  a * a + b * b >= r * r

\* blended elevations the multiplier is applied to
Blends == {-40 * SCALE, -SCALE, 0, Dec(1, 2), 55 * SCALE}

\* C22: the multiplier islandFactor*0.7 + 0.3 of every cell lies in
\* [0.3, 1]; it is 1 at the cell (W/2, H/2) and exactly 0.3 at every cell
\* whose normalised distance from (0.5, 0.5) is at least 0.5, the corner
\* (0, 0) among them; the attenuated elevation is never closer to 0 than 30%
\* of the blended elevation.
C22_AttenuationFloor ==
    island.made =>
        /\ island.multiplier >= Dec(3, 10) /\ island.multiplier <= SCALE
        /\ (2 * island.x = island.w /\ 2 * island.y = island.h
              => island.multiplier = SCALE)
        /\ (FarFromCenter => island.multiplier = Dec(3, 10))
        /\ (island.x = 0 /\ island.y = 0 => island.multiplier = Dec(3, 10))
        /\ \A blend \in Blends :
              Abs(FMul(blend, island.multiplier)) >= Abs(FMul(blend, Dec(3, 10)))

\* the factor of a cell strictly between the centre and the rim has been
\* computed in a grid that has a centre cell and whose corner is at the floor
C22_Witness ==
    /\ island.made
    /\ island.w = IslandDim /\ island.h >= 4
    /\ island.multiplier > Dec(3, 10) /\ island.multiplier < SCALE
    /\ ~FarFromCenter
    /\ Attenuation(0, 0) = Dec(3, 10)
    /\ Attenuation(Dec(1, 2), Dec(1, 2)) = SCALE

---------------------------------------------------------------------------
(* Smoothing: the neighbourhood                                            *)

\* the cells the third loop reads for cell c of the grid it runs over
KernelOf(c) == SmoothKernel(carvedData, c[1], c[2], width, height)

OnEdge(c) == c[1] \in {0, width - 1} \/ c[2] \in {0, height - 1}
IsCorner(c) == c[1] \in {0, width - 1} /\ c[2] \in {0, height - 1}

\* C23: for every cell the third loop reads exactly the cells at most one
\* column and one row away that lie inside the grid, each once and without
\* wraparound, and divides by their number; the cell itself is among them
\* and the number is never 0; in a grid of at least 2 x 2 cells the number is
\* 9 for an interior cell, 6 for an edge cell that is no corner and 4 for a
\* corner.
C23_ClampedNeighbourhood ==
    pc \in {"smooth", "commit"} =>
        \A c \in Cells :
            LET k == KernelOf(c)
                read == {k.cells[i] : i \in 1 .. Len(k.cells)}
            IN  /\ read = Neighbourhood(c)
                /\ Len(k.cells) = Cardinality(read)
                /\ k.count = Len(k.cells)
                /\ k.total = SumElevation(carvedData, read)
                /\ c \in read
                /\ k.count > 0
                /\ (width >= 2 /\ height >= 2) =>
                      k.count = IF IsCorner(c) THEN 4
                                ELSE IF OnEdge(c) THEN 6
                                ELSE 9

\* the third loop has run over a grid with an interior cell above the water
\* level, whose smoothed elevation is made of the mean of 9 cells
C23_Witness ==
    /\ pc = "commit"
    /\ \E c \in Cells :
        /\ ~OnEdge(c)
        /\ KernelOf(c).count = 9
        /\ KernelOf(<<0, 0>>).count = 4
        /\ KernelOf(<<c[1], 0>>).count = 6
        /\ carvedData[c[2]][c[1]].elevation > WATER_LEVEL
        /\ smoothedElevation[c[2]][c[1]] =
              FMul(KernelOf(c).total \div 9, Dec(7, 10))
              + FMul(carvedData[c[2]][c[1]].elevation, Dec(3, 10))

---------------------------------------------------------------------------
(* The cached noise functions against the monolithic copy                  *)

\* C24: every PerlinNoise call made for the last LayeredNoise call returned
\* the value the monolithic PerlinNoise (table rebuilt on every call)
\* returns for its arguments, and the LayeredNoise call returned the value
\* the monolithic LayeredNoise (unguarded division) returns.
C24_SameAsMonolithic ==
    layered.made =>
        /\ \A i \in 1 .. Len(layered.calls) :
              layered.calls[i].value =
                  MonoPerlinNoise(layered.calls[i].x, layered.calls[i].y,
                                  layered.calls[i].seed)
        /\ LET m == MonoLayeredNoise(layered.x, layered.y, layered.octaves,
                                     layered.persistence, layered.scale,
                                     layered.seed)
           IN  m.finite /\ m.value = layered.value

---------------------------------------------------------------------------
(* Rivers: carved cells stay water                                         *)

\* the cells whose river noise exceeds RIVER_THRESHOLD
RiverCells == {c \in Cells : rawData[c[2]][c[1]].riverValue > RIVER_THRESHOLD}

\* WATER_LEVEL - strength * 5 for the river value rv
BedOf(rv) == WATER_LEVEL - 5 * FDiv(rv - RIVER_THRESHOLD, SCALE - RIVER_THRESHOLD)

\* C25: after the second loop every cell whose riverValue exceeds
\* RIVER_THRESHOLD has an elevation <= WATER_LEVEL - strength*5, which is
\* below WATER_LEVEL; the third loop and its commit leave that elevation as
\* it is; the cell is finalized as DeepWater or ShallowWater and its tile is
\* not walkable.
C25_RiversAreWater ==
    \A c \in (IF carvedData = <<>> THEN {} ELSE RiverCells) :
        LET carved == carvedData[c[2]][c[1]].elevation
        IN  /\ carved <= BedOf(rawData[c[2]][c[1]].riverValue)
            /\ BedOf(rawData[c[2]][c[1]].riverValue) < WATER_LEVEL
            /\ terrainData[c[2]][c[1]].elevation = carved
            /\ (pc = "commit" \/ (pc = "smooth" /\ c \in Visited))
                  => smoothedElevation[c[2]][c[1]] = carved
            /\ (pc = "idle" \/ (pc = "finalize" /\ c \in Visited))
                  => /\ terrainData[c[2]][c[1]].biome
                            \in {"DEEP_WATER", "SHALLOW_WATER"}
                     /\ ~world[c[2]][c[1]].walkable
                     /\ world[c[2]][c[1]].elevation < 20

\* a grid has been returned in which a cell just above RIVER_THRESHOLD, on
\* walkable ground before the second loop and next to land that stayed
\* land, is shallow water
C25_Witness ==
    /\ pc = "idle" /\ outcome = "returned"
    /\ \E c \in RiverCells :
        /\ rawData[c[2]][c[1]].riverValue = RIVER_THRESHOLD + 1
        /\ rawData[c[2]][c[1]].elevation >= 30 * SCALE
        /\ terrainData[c[2]][c[1]].biome = "SHALLOW_WATER"
        /\ ~world[c[2]][c[1]].walkable
        /\ \E n \in Neighbourhood(c) : world[n[2]][n[1]].walkable

---------------------------------------------------------------------------
(* Walkable tiles                                                          *)

\* the cells the fifth loop has finalized
Finalized ==
    IF pc = "idle" /\ outcome = "returned" THEN Cells
    ELSE IF pc = "finalize" THEN Visited
    ELSE {}

\* C26: a finalized tile is walkable exactly when the elevation of its cell
\* after smoothing (not truncated) is at least WATER_LEVEL and below
\* HILLS_LEVEL, that is when its biome is Beach, Plains, Forest or Hills;
\* DeepWater, ShallowWater, Mountains and SnowCaps tiles are not walkable,
\* whatever the moisture.
C26_WalkableByElevation ==
    \A c \in Finalized :
        LET d == terrainData[c[2]][c[1]]
            tile == world[c[2]][c[1]]
        IN  /\ tile.walkable <=>
                  (d.elevation >= WATER_LEVEL /\ d.elevation < HILLS_LEVEL)
            /\ tile.walkable <=> d.biome \in {"BEACH", "PLAINS", "FOREST", "HILLS"}
            /\ d.biome \in {"DEEP_WATER", "SHALLOW_WATER", "MOUNTAINS", "SNOW_CAPS"}
                  => ~tile.walkable
            /\ \A m \in {CellMoistures[i] : i \in 1 .. Len(CellMoistures)} :
                  CreateBiomeProperties(DetermineBiome(d.elevation, m)).walkable
                      = tile.walkable

\* a grid has been returned with a walkable hills tile next to a mountains
\* tile, and with a tile exactly at WATER_LEVEL that is walkable
C26_Witness ==
    /\ pc = "idle" /\ outcome = "returned"
    /\ \E c \in Cells :
        /\ terrainData[c[2]][c[1]].biome = "HILLS"
        /\ world[c[2]][c[1]].walkable
        /\ \E n \in Neighbourhood(c) :
              /\ terrainData[n[2]][n[1]].biome = "MOUNTAINS"
              /\ ~world[n[2]][n[1]].walkable
    /\ \E c \in Cells :
        /\ terrainData[c[2]][c[1]].elevation = WATER_LEVEL
        /\ world[c[2]][c[1]].walkable

---------------------------------------------------------------------------
(* The noise on the lattice                                                *)

\* integer coordinates: the origin, and cells at the wraparound of the
\* table on both sides of it
LatticePoints == {-257 * SCALE, 0, 255 * SCALE}

\* the static cache of PerlinNoise as the calls so far have left it
CacheNow == [p |-> p, lastSeed |-> lastSeed]

\* C27: whatever calls came before, PerlinNoise returns exactly 0 at integer
\* coordinates for every seed, LayeredNoise returns 0 at (0, 0), and the
\* cell (0, 0) of the grid has elevation 0 in every pass and a tile of
\* elevation 0 that is not walkable.  (The static cache changes in the first
\* loop only: the calls are made from each state of it and from the state
\* before the first generation.)
C27_ZeroOnLattice ==
    /\ (pc = "raw" \/ outcome = "none") =>
          /\ \A x \in LatticePoints, y \in LatticePoints, seed \in NoiseSeeds :
                PerlinNoise(x, y, seed, CacheNow).value = 0
          /\ \A octaves \in 1 .. MaxOctaves, scale \in LayeredScales :
                \A seed \in LayeredSeeds :
                    LayeredNoise(0, 0, octaves, Dec(1, 2), scale, seed,
                                 CacheNow).value = 0
    /\ (<<0, 0>> \in Cells /\ pc # "idle") =>
          /\ terrainData[0][0].elevation = 0
          /\ terrainData[0][0].moisture = 0
          /\ terrainData[0][0].riverValue = 0
    /\ (<<0, 0>> \in Cells /\ outcome = "returned") =>
          /\ terrainData[0][0].elevation = 0
          /\ world[0][0].elevation = 0
          /\ ~world[0][0].walkable

\* a grid has been returned whose cell (0, 0) was computed from a shuffled
\* table and in which another cell has an elevation other than 0
C27_Witness ==
    /\ outcome = "returned" /\ pc = "idle"
    /\ width >= 2 /\ height >= 2
    /\ lastSeed # InitialSeed
    /\ rawData[0][0].elevation = 0
    /\ world[0][0].elevation = 0 /\ ~world[0][0].walkable
    /\ \E c \in Cells : rawData[c[2]][c[1]].elevation # 0

---------------------------------------------------------------------------
(* The player stays inside the world                                       *)

\* the position lies in [1, w - 2] x [1, h - 2] and its tile is one of the grid
InsideWorld(pl, grid, w, h) ==
    /\ pl.x >= SCALE /\ pl.x <= (w - 2) * SCALE
    /\ pl.y >= SCALE /\ pl.y <= (h - 2) * SCALE
    /\ TruncToInt(pl.y) \in DOMAIN grid
    /\ TruncToInt(pl.x) \in DOMAIN grid[TruncToInt(pl.y)]

AllKeyStates == SUBSET {"W", "A", "S", "D", "SPACE"}

\* C28: after every HandlePlayerMovement call, whatever the position before
\* it (the arrow keys and the reset key may have pushed it outside the world)
\* and whatever keys are held, 1 <= player.x <= WORLD_WIDTH - 2 and
\* 1 <= player.y <= WORLD_HEIGHT - 2, and the tile of the position, the one
\* the call reads, is a tile of the world
C28_PlayerClamped ==
    /\ (pc \in {"render", "events"} /\ playerCall.made)
          => InsideWorld(player, world, width, height)
    /\ pc = "move"
          => \A keystate \in AllKeyStates, deltaTime \in DeltaTimes :
                InsideWorld(HandlePlayerMovement(player, keystate, deltaTime,
                                                 world, width, height),
                            world, width, height)

\* a call is entered with a position the arrow keys have pushed off the
\* grid on one axis and beyond WORLD_HEIGHT - 2 on the other, after an
\* earlier call has returned
C28_Witness ==
    /\ pc = "move" /\ playerCall.made
    /\ player.x < 0 /\ player.y > (height - 2) * SCALE

---------------------------------------------------------------------------
(* The jump state machine                                                  *)

\* the elevation of the tile under the player, as a float
TileUnder(pl, grid) == grid[TruncToInt(pl.y)][TruncToInt(pl.x)].elevation * SCALE

\* the call that takes the player pl to q with the keys held: a jump starts
\* only with SPACE held on the ground; in the air SPACE changes nothing and
\* the velocity drops by GRAVITY or the player lands; on the ground without
\* SPACE the velocity stays and the elevation moves a fifth of the way to
\* the tile under the player
JumpStep(pl, q, keystate, deltaTime, grid, w, h) ==
    LET ground == ~pl.isJumping
        space == "SPACE" \in keystate
        landed == ~q.isJumping /\ q.velocityZ = 0 /\ q.elevation = TileUnder(q, grid)
    IN  /\ (ground /\ space)
              => \/ q.isJumping /\ q.velocityZ = JUMP_FORCE - GRAVITY
                 \/ landed
        /\ ~ground
              => /\ q = HandlePlayerMovement(pl, keystate \ {"SPACE"}, deltaTime,
                                             grid, w, h)
                 /\ \/ /\ q.isJumping /\ q.velocityZ = pl.velocityZ - GRAVITY
                       /\ q.elevation = pl.elevation + q.velocityZ
                    \/ landed
        /\ (ground /\ ~space)
              => /\ ~q.isJumping /\ q.velocityZ = pl.velocityZ
                 /\ Abs(5 * (q.elevation - pl.elevation)
                        - (TileUnder(q, grid) - pl.elevation)) <= 5

\* C29: from main's start, after any HandlePlayerMovement calls and key
\* events, isJumping = false implies velocityZ = 0; a call sets velocityZ to
\* JUMP_FORCE only when SPACE is held and isJumping was false; and a call
\* made while the player is not jumping moves the elevation 20% of the way
\* toward the elevation of the tile under the player
C29_JumpStateMachine ==
    /\ ~player.isJumping => player.velocityZ = 0
    /\ player.velocityZ <= JUMP_FORCE - GRAVITY
    /\ pc = "move"
          => \A keystate \in AllKeyStates, deltaTime \in DeltaTimes :
                JumpStep(player,
                         HandlePlayerMovement(player, keystate, deltaTime, world,
                                              width, height),
                         keystate, deltaTime, world, width, height)

\* a call is entered in the air, on the way down
C29_Witness ==
    /\ pc = "move" /\ playerCall.made
    /\ player.isJumping /\ player.velocityZ < 0

---------------------------------------------------------------------------
(* Every jump lands                                                        *)

\* a call has returned with the player on the ground, at the elevation of
\* the tile under it
Landed ==
    /\ pc = "events" /\ playerCall.made
    /\ ~player.isJumping /\ player.velocityZ = 0
    /\ player.elevation = TileUnder(player, world)

\* C30: if HandlePlayerMovement keeps being called, every state with
\* isJumping = true is followed by a state with isJumping = false,
\* velocityZ = 0 and the elevation of the tile under the player, whatever
\* keys are held and events arrive during the jump
C30_EveryJumpLands == player.isJumping ~> Landed

\* the last call ended a jump: the player stands on a tile whose elevation
\* no walking call could have reached
C30_Witness ==
    /\ Landed /\ playerCall.walked = 0
    /\ player.elevation > 30 * SCALE

====
